---- MODULE Spec2Model ----
(***************************************************************************)
(* A model of the SplashSrv game server's session actor (src/gs2): the     *)
(* connection table, CID allocation, the lobby / room state machine and    *)
(* the packets each handler writes to the players' outbound channels.      *)
(*                                                                         *)
(* Conventions.  Rust vectors are 0-based, TLA+ sequences 1-based: an      *)
(* index `who` of the code is `who + 1` here, and lobby number n is the    *)
(* (n+1)-th lobby of its mode.  An Option<T> is a record [some, v].        *)
(* Every handler is one action; the packets it delivered are left in       *)
(* `sent` and a description of the request and its outcome in `last`.      *)
(***************************************************************************)
EXTENDS Integers, Sequences, FiniteSets, TLC

VARIABLES
    next_cid,     \* GameServer.next_cid
    conns,        \* GameServer.conns: sequence of Player records
    conn_lookup,  \* GameServer.conn_lookup: CID -> index into conns
    lobbies,      \* GameServer.lobbies: mode -> sequence of Lobby records
    actor,        \* "running", or "panicked" / "hung" once the actor task is lost
    sent,         \* packets delivered by the last handler, in order
    last,         \* the last message handled and its outcome
    queue,        \* the session actor's inbound mpsc queue (connection-level model)
    tasks,        \* the connection tasks (connection-level model)
    stream,       \* one Connection (stream.rs): its buffer, next_pid, and the wire
    codec,        \* a value of src/data and the words it is packed into
    db            \* the storage task (db_task): its command queue and the accounts' data

vars == <<next_cid, conns, conn_lookup, lobbies, actor, sent, last, queue, tasks,
          stream, codec, db>>

----------------------------------------------------------------------------
(* Program constants *)

CID_MIN == 600
CID_MAX == 999
LOBBY_MAX_MEMBERS == 10
ROOM_NUM_LIMIT == 127
CODE_WRONG_PASSWORD == 0 - 3
CODE_GENERIC == 0 - 1

(* Bounds of the exploration *)

MaxPlayers == 2
MaxLogins == 2
MaxRooms == 2
NumAccounts == 2
MaxMemberMax == 2

Accounts == 1 .. NumAccounts
LobbyModes == {"VS", "Competition"}
ModeInputs == {"Single", "VS"}
LobbyInputs == {0, 1}
Pids == {7}
Passwords == {"abc", "xyz"}

EmptyLookup == [c \in {} |-> 0]

None == [some |-> FALSE, v |-> 0]
Some(x) == [some |-> TRUE, v |-> x]
NoPassword == [some |-> FALSE, v |-> ""]

Pkt(op, a, b) == [op |-> op, a |-> a, b |-> b]

\* A write of a handler: `look` is the CID the code looks up in conn_lookup on the
\* way (-1: none), `idx` the index of conns it writes to (0: the looked-up one).
\* a write through self.conns[who]
Direct(who, pid, pkt) == [look |-> 0 - 1, idx |-> who, pid |-> pid, pkt |-> pkt]
\* a write through self.conns[*conn_lookup.get(&cid).unwrap()]
ViaLookup(cid, pid, pkt) == [look |-> cid, idx |-> 0, pid |-> pid, pkt |-> pkt]
\* a write to self.conns[who] of data read through conn_lookup.get(&cid).unwrap()
DirectAbout(cid, who, pid, pkt) == [look |-> cid, idx |-> who, pid |-> pid, pkt |-> pkt]

----------------------------------------------------------------------------
(* Sequence helpers *)

RECURSIVE SeqWithout(_, _)
\* Vec::remove at the first position of x
SeqWithout(s, x) ==
    IF s = <<>> THEN <<>>
    ELSE IF Head(s) = x THEN Tail(s)
    ELSE <<Head(s)>> \o SeqWithout(Tail(s), x)

InSeq(s, x) == \E i \in 1 .. Len(s) : s[i] = x

----------------------------------------------------------------------------
(* Player::write / write_with_pid, run over a handler's writes in order.   *)
(* A send fails once the connection task has dropped its receiver; a `?`   *)
(* then leaves the handler.  A lookup of an unregistered CID is the panic  *)
(* of `.unwrap()` / of BTreeMap indexing.                                  *)

RECURSIVE RunWrites(_, _, _)
RunWrites(ws, cs, lk) ==
    IF ws = <<>> THEN [out |-> <<>>, status |-> "ok"]
    ELSE LET w == Head(ws) IN
         IF w.look >= 0 /\ w.look \notin DOMAIN lk
         THEN [out |-> <<>>, status |-> "panic"]
         ELSE LET idx == IF w.idx = 0 THEN lk[w.look] ELSE w.idx IN
              IF idx \notin 1 .. Len(cs)
              THEN [out |-> <<>>, status |-> "panic"]
              ELSE IF ~cs[idx].open
              THEN [out |-> <<>>, status |-> "err"]
              ELSE LET r == RunWrites(Tail(ws), cs, lk) IN
                   [out |-> <<[to |-> cs[idx].cid, uid |-> cs[idx].uid,
                               pid |-> w.pid, pkt |-> w.pkt]>> \o r.out,
                    status |-> r.status]

RECURSIVE Notify(_, _, _)
\* the writes of `for &cid in &members { if cid != skip { lookup(cid).write(pkt) } }`
Notify(members, skip, pkt) ==
    IF members = <<>> THEN <<>>
    ELSE IF Head(members) = skip THEN Notify(Tail(members), skip, pkt)
    ELSE <<ViaLookup(Head(members), None, pkt)>> \o Notify(Tail(members), skip, pkt)

----------------------------------------------------------------------------
(* CID allocation *)

\* mutant: the candidate is returned without the test against conn_lookup
GenerateCid_no_skip(cur, lk, fuel) ==
    [hang |-> FALSE, cid |-> cur,
     next |-> IF cur + 1 > CID_MAX THEN CID_MIN ELSE cur + 1]

\* fuel counts the candidates tried; the code's loop has no such limit, and
\* a result with hang = TRUE stands for the loop never returning.  The k-th
\* candidate is next_cid after k rounds of the loop.
GenerateCid(cur, lk, fuel) ==
    LET span == CID_MAX - CID_MIN + 1
        cand(k) == CID_MIN + ((cur - CID_MIN + k) % span)
        free == {k \in 0 .. fuel - 1 : cand(k) \notin DOMAIN lk}
    IN IF free = {} THEN [hang |-> TRUE, cid |-> cand(fuel), next |-> cand(fuel)]
       ELSE LET k == CHOOSE k \in free : \A j \in free : k <= j
            IN [hang |-> FALSE, cid |-> cand(k), next |-> cand(k + 1)]

----------------------------------------------------------------------------
(* Lobbies *)

Lobbies_has_lobby(lbs, mode, num) ==
    mode \in LobbyModes /\ num >= 0 /\ num < Len(lbs[mode])

create_initial_lobbies ==
    [m \in LobbyModes |->
        <<[members |-> <<>>, max_members |-> LOBBY_MAX_MEMBERS, rooms |-> <<>>]>>]

\* eject_from_lobby: status "bail" is `bail!("invalid lobby")`; otherwise the
\* mutation is done and ws are the notifications still to be written
eject_from_lobby(cs, lbs, who) ==
    LET p == cs[who] IN
    IF ~Lobbies_has_lobby(lbs, p.mode, p.cur_lobby)
    THEN [status |-> "bail", conns |-> cs, lobbies |-> lbs, ws |-> <<>>]
    ELSE LET lobby == lbs[p.mode][p.cur_lobby + 1] IN
         IF ~InSeq(lobby.members, p.cid)
         THEN [status |-> "panic", conns |-> cs, lobbies |-> lbs, ws |-> <<>>]
         ELSE LET members2 == SeqWithout(lobby.members, p.cid)
                  cs2 == [cs EXCEPT ![who].cur_lobby = 0 - 1]
                  lbs2 == [lbs EXCEPT ![p.mode][p.cur_lobby + 1].members = members2]
                  ulist_l == Pkt("SEND_ULIST_L", p.cid, 0 - 1)
              IN [status |-> "ok", conns |-> cs2, lobbies |-> lbs2,
                  ws |-> Notify(members2, 0 - 1, ulist_l)]


Outcome(op, cid, arg, res) == [op |-> op, cid |-> cid, arg |-> arg, res |-> res]

MapInsert(lk, k, v) == [c \in (DOMAIN lk) \cup {k} |-> IF c = k THEN v ELSE lk[c]]
MapRemove(lk, k) == [c \in (DOMAIN lk) \ {k} |-> lk[c]]

----------------------------------------------------------------------------
(* Message::Login *)

\* mutant: the scan of conns left out
already_logged_in_never(cs, uid) == FALSE

\* "Is this user already logged in?"
already_logged_in(cs, uid) == \E i \in 1 .. Len(cs) : cs[i].uid = uid

\* mutant: the CID is generated before the scan of conns
handle_login_cid_first(auth) ==
    LET g == GenerateCid(next_cid, conn_lookup, CID_MAX - CID_MIN + 1)
        who == Len(conns) + 1
        player == [cid |-> g.cid, uid |-> auth, mode |-> "None",
                   cur_lobby |-> 0 - 1, cur_room |-> 0 - 1, open |-> TRUE]
    IN
    IF auth = 0 THEN
        /\ last' = Outcome("Login", 0 - 1, auth, "IDError")
        /\ sent' = <<>>
        /\ UNCHANGED <<next_cid, conns, conn_lookup, lobbies, actor>>
    ELSE IF already_logged_in(conns, auth) THEN
        /\ last' = Outcome("Login", 0 - 1, auth, "MultiLoginError")
        /\ sent' = <<>>
        /\ next_cid' = g.next
        /\ UNCHANGED <<conns, conn_lookup, lobbies, actor>>
    ELSE
        /\ next_cid' = g.next
        /\ conns' = Append(conns, player)
        /\ conn_lookup' = MapInsert(conn_lookup, g.cid, who)
        /\ sent' = RunWrites(<<Direct(who, None, Pkt("ACK_IDPASS_G", g.cid, auth)),
                               Direct(who, None, Pkt("ORD_COLOR_RESULT", 0, 0))>>,
                             conns', conn_lookup').out
        /\ last' = Outcome("Login", g.cid, auth, "Success")
        /\ UNCHANGED <<lobbies, actor>>

\* handle_login, given the storage task's answer: auth = 0 stands for an Err
\* of authenticate_user_to_game, auth = uid for Ok(account)
handle_login(auth) ==
    IF auth = 0 THEN
        /\ last' = Outcome("Login", 0 - 1, auth, "IDError")
        /\ sent' = <<>>
        /\ UNCHANGED <<next_cid, conns, conn_lookup, lobbies, actor>>
    ELSE IF already_logged_in(conns, auth) THEN
        /\ last' = Outcome("Login", 0 - 1, auth, "MultiLoginError")
        /\ sent' = <<>>
        /\ UNCHANGED <<next_cid, conns, conn_lookup, lobbies, actor>>
    ELSE
        LET g == GenerateCid(next_cid, conn_lookup, CID_MAX - CID_MIN + 1)
            who == Len(conns) + 1
            player == [cid |-> g.cid, uid |-> auth, mode |-> "None",
                       cur_lobby |-> 0 - 1, cur_room |-> 0 - 1, open |-> TRUE]
        IN IF g.hang THEN
               /\ actor' = "hung"
               /\ last' = Outcome("Login", 0 - 1, auth, "hang")
               /\ sent' = <<>>
               /\ UNCHANGED <<next_cid, conns, conn_lookup, lobbies>>
           ELSE
               /\ next_cid' = g.next
               /\ conns' = Append(conns, player)
               /\ conn_lookup' = MapInsert(conn_lookup, g.cid, who)
               /\ sent' = RunWrites(<<Direct(who, None, Pkt("ACK_IDPASS_G", g.cid, auth)),
                                      Direct(who, None, Pkt("ORD_COLOR_RESULT", 0, 0))>>,
                                    conns', conn_lookup').out
               /\ last' = Outcome("Login", g.cid, auth, "Success")
               /\ UNCHANGED <<lobbies, actor>>

\* the connection task of conns[who] has ended: its ConnReceiver is dropped
DropReceiver(who) ==
    /\ conns[who].open
    /\ conns' = [conns EXCEPT ![who].open = FALSE]
    /\ sent' = <<>>
    /\ last' = Outcome("DropReceiver", conns[who].cid, 0, "ok")
    /\ UNCHANGED <<next_cid, conn_lookup, lobbies, actor>>

----------------------------------------------------------------------------
(* Message::Logout *)

\* Vec::swap_remove
swap_remove(cs, who) ==
    LET n == Len(cs) IN
    IF who = n THEN SubSeq(cs, 1, n - 1)
    ELSE SubSeq(cs, 1, who - 1) \o <<cs[n]>> \o SubSeq(cs, who + 1, n - 1)

\* the tail of remove_player, after the lobby eviction went through
remove_player_finish(cs, lbs, lk, who, out, cid) ==
    LET cs2 == swap_remove(cs, who) IN
    /\ conns' = cs2
    /\ lobbies' = lbs
    /\ sent' = out
    /\ IF who <= Len(cs2)
       THEN LET pawn == cs2[who]
                old_ok == pawn.cid \in DOMAIN lk /\ lk[pawn.cid] = Len(cs2) + 1
            IN /\ conn_lookup' = MapInsert(lk, pawn.cid, who)
               /\ actor' = IF old_ok THEN actor ELSE "panicked"
               /\ last' = Outcome("Logout", cid, cs[who].cur_room, IF old_ok THEN "removed" ELSE "panic")
       ELSE /\ conn_lookup' = lk
            /\ actor' = actor
            /\ last' = Outcome("Logout", cid, cs[who].cur_room, "removed")

remove_player(cid) ==
    /\ UNCHANGED <<next_cid>>
    /\ IF cid \notin DOMAIN conn_lookup THEN
           /\ last' = Outcome("Logout", cid, 0 - 1, "unknown")
           /\ sent' = <<>>
           /\ UNCHANGED <<conns, conn_lookup, lobbies, actor>>
       ELSE
           LET who == conn_lookup[cid]
               lk == MapRemove(conn_lookup, cid)
           IN IF conns[who].cur_lobby >= 0 THEN
                  LET e == eject_from_lobby(conns, lobbies, who)
                      r == RunWrites(e.ws, e.conns, lk)
                      st == IF e.status = "ok" THEN r.status ELSE e.status
                  IN IF st = "ok" THEN
                         remove_player_finish(e.conns, e.lobbies, lk, who, r.out, cid)
                     ELSE
                         /\ conns' = e.conns
                         /\ lobbies' = e.lobbies
                         /\ conn_lookup' = lk
                         /\ sent' = r.out
                         /\ actor' = IF st = "panic" THEN "panicked" ELSE actor
                         /\ last' = Outcome("Logout", cid, conns[who].cur_room, st)
              ELSE remove_player_finish(conns, lobbies, lk, who, <<>>, cid)

----------------------------------------------------------------------------
(* PlayerData: REQ_CHG_MODE, REQ_ENTER_LOBBY *)

handle_change_mode(who, new_mode) ==
    LET p == conns[who]
        ack == Direct(who, None, Pkt("ACK_CHG_MODE", 0, 0))
        eject == p.mode # new_mode /\ p.cur_lobby >= 0
        e == IF eject THEN eject_from_lobby(conns, lobbies, who)
             ELSE [status |-> "ok", conns |-> conns, lobbies |-> lobbies, ws |-> <<>>]
        r1 == RunWrites(e.ws, e.conns, conn_lookup)
        st1 == IF e.status = "ok" THEN r1.status ELSE e.status
        cs2 == IF p.mode # new_mode THEN [e.conns EXCEPT ![who].mode = new_mode] ELSE e.conns
        r2 == RunWrites(<<ack>>, cs2, conn_lookup)
    IN /\ UNCHANGED <<next_cid, conn_lookup>>
       /\ lobbies' = e.lobbies
       /\ IF st1 = "ok" THEN
              /\ conns' = cs2
              /\ sent' = r1.out \o r2.out
              /\ actor' = actor
              /\ last' = Outcome("ChangeMode", p.cid, [mode |-> new_mode], r2.status)
          ELSE
              /\ conns' = e.conns
              /\ sent' = r1.out
              /\ actor' = IF st1 = "panic" THEN "panicked" ELSE actor
              /\ last' = Outcome("ChangeMode", p.cid, [mode |-> new_mode], st1)

handle_enter_lobby(who, num) ==
    LET p == conns[who] IN
    /\ UNCHANGED <<next_cid, conn_lookup>>
    /\ IF p.cur_lobby >= 0 THEN
           /\ last' = Outcome("EnterLobby", p.cid, [num |-> num], "bail_in_lobby")
           /\ sent' = <<>>
           /\ UNCHANGED <<conns, lobbies, actor>>
       ELSE IF ~Lobbies_has_lobby(lobbies, p.mode, num) THEN
           /\ last' = Outcome("EnterLobby", p.cid, [num |-> num], "bail_invalid")
           /\ sent' = <<>>
           /\ UNCHANGED <<conns, lobbies, actor>>
       ELSE LET lobby == lobbies[p.mode][num + 1] IN
           IF Len(lobby.members) >= lobby.max_members THEN
               LET r == RunWrites(<<Direct(who, None, Pkt("ACK_ENTER_LOBBY", 0 - 1, 0))>>,
                                  conns, conn_lookup)
               IN /\ last' = Outcome("EnterLobby", p.cid, [num |-> num], "full")
                  /\ sent' = r.out
                  /\ UNCHANGED <<conns, lobbies, actor>>
           ELSE
               LET members2 == Append(lobby.members, p.cid)
                   cs2 == [conns EXCEPT ![who].cur_lobby = num]
                   ws == <<Direct(who, None, Pkt("ACK_ENTER_LOBBY", num, 0))>>
                         \o Notify(members2, p.cid, Pkt("SEND_ULIST_L", p.cid, num))
                   r == RunWrites(ws, cs2, conn_lookup)
               IN /\ lobbies' = [lobbies EXCEPT ![p.mode][num + 1].members = members2]
                  /\ conns' = cs2
                  /\ sent' = r.out
                  /\ actor' = IF r.status = "panic" THEN "panicked" ELSE actor
                  /\ last' = Outcome("EnterLobby", p.cid, [num |-> num],
                                     IF r.status = "ok" THEN "entered" ELSE r.status)

----------------------------------------------------------------------------
(* Rooms *)

RECURSIVE binary_search(_, _, _, _)
\* [T]::binary_search_by_key over rooms[lo .. hi - 1] (1-based): index or 0
binary_search(rooms, key, lo, hi) ==
    IF lo >= hi THEN 0
    ELSE LET mid == lo + ((hi - lo) \div 2) IN
         IF rooms[mid].room_num = key THEN mid
         ELSE IF rooms[mid].room_num < key THEN binary_search(rooms, key, mid + 1, hi)
         ELSE binary_search(rooms, key, lo, mid)

\* Lobbies::room / room_mut: the index of the room in its lobby's list, or 0
Lobbies_room(lbs, mode, lobby_num, room_num) ==
    IF ~Lobbies_has_lobby(lbs, mode, lobby_num) THEN 0
    ELSE LET rooms == lbs[mode][lobby_num + 1].rooms
         IN binary_search(rooms, room_num, 1, Len(rooms) + 1)

\* the value of 'candidate' after i iterations that all kept looking
pick_candidate(rooms, i) == IF i = 0 THEN 0 ELSE rooms[i].room_num + 1

\* the iterations of the loop of pick_free_room_num that leave it
pick_stops(rooms) ==
    {i \in 1 .. Len(rooms) :
        \/ rooms[i].room_num > pick_candidate(rooms, i - 1)
        \/ rooms[i].room_num = ROOM_NUM_LIMIT}

\* mutant: the number after the last room's
pick_free_room_num_after_last(lobby) ==
    IF lobby.rooms = <<>> THEN Some(0)
    ELSE IF lobby.rooms[Len(lobby.rooms)].room_num = ROOM_NUM_LIMIT THEN None
    ELSE Some(lobby.rooms[Len(lobby.rooms)].room_num + 1)

\* Lobby::pick_free_room_num
pick_free_room_num(lobby) ==
    LET rooms == lobby.rooms
        stops == pick_stops(rooms)
    IN IF stops = {} THEN Some(pick_candidate(rooms, Len(rooms)))
       ELSE LET i == CHOOSE j \in stops : \A k \in stops : j <= k
            IN IF rooms[i].room_num > pick_candidate(rooms, i - 1)
               THEN Some(pick_candidate(rooms, i - 1))
               ELSE None

\* Room::new, with the creator not yet pushed
Room_new(room_num, data) ==
    [room_num |-> room_num,
     members |-> <<>>,
     max_members |-> data.member_max,
     password |-> IF data.flag_password THEN Some(data.room_password) ELSE NoPassword,
     current_player |-> 0 - 1]

\* mutant: push without the sort_by_key
InsertSorted_push(rooms, room) == rooms \o <<room>>

\* push followed by the stable sort_by_key, on a list that was sorted
InsertSorted(rooms, room) ==
    LET k == Cardinality({i \in 1 .. Len(rooms) : rooms[i].room_num <= room.room_num})
    IN SubSeq(rooms, 1, k) \o <<room>> \o SubSeq(rooms, k + 1, Len(rooms))

\* mutant: the "already in a room" test written as in _enter_room_internal
make_room_check_room_gt_0(p, lbs, data) ==
    IF ~Lobbies_has_lobby(lbs, data.mode, data.lobby) THEN "bail_invalid"
    ELSE IF p.mode # data.mode THEN "bail_mode"
    ELSE IF p.cur_lobby # data.lobby THEN "bail_lobby"
    ELSE IF p.cur_room > 0 THEN "bail_in_room"
    ELSE "ok"

\* the precondition checks of handle_make_room, in the code's order
make_room_check(p, lbs, data) ==
    IF ~Lobbies_has_lobby(lbs, data.mode, data.lobby) THEN "bail_invalid"
    ELSE IF p.mode # data.mode THEN "bail_mode"
    ELSE IF p.cur_lobby # data.lobby THEN "bail_lobby"
    ELSE IF p.cur_room >= 0 THEN "bail_in_room"
    ELSE "ok"

handle_make_room(pid, who, data) ==
    LET p == conns[who]
        chk == make_room_check(p, lobbies, data)
        arg == [pid |-> pid, data |-> data]
    IN
    /\ UNCHANGED <<next_cid, conn_lookup, actor>>
    /\ IF chk # "ok" THEN
           /\ last' = Outcome("MakeRoom", p.cid, arg, chk)
           /\ sent' = <<>>
           /\ UNCHANGED <<conns, lobbies>>
       ELSE LET lobby == lobbies[data.mode][data.lobby + 1]
                n == pick_free_room_num(lobby)
            IN IF ~n.some THEN
                   /\ sent' = RunWrites(<<Direct(who, Some(pid), Pkt("ACK_MAKE_ROOM", 0 - 1, 0))>>,
                                        conns, conn_lookup).out
                   /\ last' = Outcome("MakeRoom", p.cid, arg, "no_free_number")
                   /\ UNCHANGED <<conns, lobbies>>
               ELSE LET room == [Room_new(n.v, data) EXCEPT !.members = <<p.cid>>]
                        cs2 == [conns EXCEPT ![who].cur_room = n.v]
                    IN /\ conns' = cs2
                       /\ lobbies' = [lobbies EXCEPT ![data.mode][data.lobby + 1].rooms =
                                          InsertSorted(lobby.rooms, room)]
                       /\ sent' = RunWrites(<<Direct(who, Some(pid), Pkt("ACK_MAKE_ROOM", n.v, 0))>>,
                                            cs2, conn_lookup).out
                       /\ last' = Outcome("MakeRoom", p.cid, arg, "created")

\* mutant: the password comparison left out
enter_room_check_no_password(p, lbs, room_num, password) ==
    IF p.cur_room > 0 THEN "AlreadyInRoom"
    ELSE LET ri == Lobbies_room(lbs, p.mode, p.cur_lobby, room_num) IN
         IF ri = 0 THEN "RoomNotFound"
         ELSE LET room == lbs[p.mode][p.cur_lobby + 1].rooms[ri] IN
              IF Len(room.members) >= room.max_members THEN "RoomIsFull"
              ELSE "ok"

\* the checks of _enter_room_internal, in the code's order: an EnterRoomError or "ok"
enter_room_check(p, lbs, room_num, password) ==
    IF p.cur_room > 0 THEN "AlreadyInRoom"
    ELSE LET ri == Lobbies_room(lbs, p.mode, p.cur_lobby, room_num) IN
         IF ri = 0 THEN "RoomNotFound"
         ELSE LET room == lbs[p.mode][p.cur_lobby + 1].rooms[ri] IN
              IF room.password.some /\ password # room.password.v THEN "WrongPassword"
              ELSE IF Len(room.members) >= room.max_members THEN "RoomIsFull"
              ELSE "ok"

\* the reply code handle_enter_room puts in the error acknowledgment
enter_room_error_code(e) ==
    IF e = "WrongPassword" THEN CODE_WRONG_PASSWORD ELSE CODE_GENERIC

handle_enter_room(pid, who, room_num, password) ==
    LET p == conns[who]
        chk == enter_room_check(p, lobbies, room_num, password)
        arg == [pid |-> pid, room |-> room_num, password |-> password]
        nack(e) == Direct(who, Some(pid), Pkt("ACK_ENTER_ROOM", enter_room_error_code(e), 0))
    IN
    /\ UNCHANGED <<next_cid, conn_lookup>>
    /\ IF chk # "ok" THEN
           /\ sent' = RunWrites(<<nack(chk)>>, conns, conn_lookup).out
           /\ last' = Outcome("EnterRoom", p.cid, arg, chk)
           /\ UNCHANGED <<conns, lobbies, actor>>
       ELSE LET ri == Lobbies_room(lobbies, p.mode, p.cur_lobby, room_num)
                room == lobbies[p.mode][p.cur_lobby + 1].rooms[ri]
                members2 == Append(room.members, p.cid)
                cs2 == [conns EXCEPT ![who].cur_room = room_num]
                ws == <<Direct(who, Some(pid), Pkt("ACK_ENTER_ROOM", room_num, Len(members2)))>>
                      \o Notify(members2, p.cid, Pkt("SEND_ULIST", p.cid, room_num))
                r == RunWrites(ws, cs2, conn_lookup)
                r2 == RunWrites(<<nack("Other")>>, cs2, conn_lookup)
            IN /\ conns' = cs2
               /\ lobbies' = [lobbies EXCEPT ![p.mode][p.cur_lobby + 1].rooms[ri].members = members2]
               /\ actor' = IF r.status = "panic" THEN "panicked" ELSE actor
               /\ sent' = IF r.status = "err" THEN r.out \o r2.out ELSE r.out
               /\ last' = Outcome("EnterRoom", p.cid, arg,
                                  CASE r.status = "ok" -> "entered"
                                    [] r.status = "err" -> "Other"
                                    [] OTHER -> "panic")

\* send_packet_to_roommates, as used by handle_shot_club (CLIENT_CRCLUB)
send_packet_to_roommates(who, pkt) ==
    LET p == conns[who]
        ri == Lobbies_room(lobbies, p.mode, p.cur_lobby, p.cur_room)
    IN IF ri = 0 THEN [out |-> <<>>, status |-> "bail"]
       ELSE RunWrites(Notify(lobbies[p.mode][p.cur_lobby + 1].rooms[ri].members, p.cid, pkt),
                      conns, conn_lookup)

handle_shot_club(who, club) ==
    LET p == conns[who]
        r == send_packet_to_roommates(who, Pkt("SEND_CRCLUB", p.cid, club))
    IN /\ sent' = r.out
       /\ actor' = IF r.status = "panic" THEN "panicked" ELSE actor
       /\ last' = Outcome("ShotClub", p.cid, 0, r.status)
       /\ UNCHANGED <<next_cid, conns, conn_lookup, lobbies>>

RECURSIVE ListMembers(_, _, _)
ListMembers(members, who, pid) ==
    IF members = <<>> THEN <<>>
    ELSE <<DirectAbout(Head(members), who, Some(pid), Pkt("SEND_ULIST", Head(members), 0))>>
         \o ListMembers(Tail(members), who, pid)

handle_get_room_members(pid, who, mode, lobby_num, room_num) ==
    LET p == conns[who]
        ri == Lobbies_room(lobbies, mode, lobby_num, room_num)
        ws == IF ri = 0 THEN <<Direct(who, Some(pid), Pkt("ACK_ULIST_R", 0 - 1, 0))>>
              ELSE ListMembers(lobbies[mode][lobby_num + 1].rooms[ri].members, who, pid)
                   \o <<Direct(who, Some(pid), Pkt("ACK_ULIST_R", 0, 0))>>
        r == RunWrites(ws, conns, conn_lookup)
    IN /\ sent' = r.out
       /\ actor' = IF r.status = "panic" THEN "panicked" ELSE actor
       /\ last' = Outcome("GetRoomMembers", p.cid,
                          [mode |-> mode, lobby |-> lobby_num, room |-> room_num],
                          IF ri = 0 THEN "not_found" ELSE r.status)
       /\ UNCHANGED <<next_cid, conns, conn_lookup, lobbies>>

RECURSIVE GameStartWrites(_, _)
GameStartWrites(members, pkt) ==
    IF members = <<>> THEN <<>>
    ELSE <<ViaLookup(Head(members), None, pkt)>> \o GameStartWrites(Tail(members), pkt)

handle_start_game(who) ==
    LET p == conns[who]
        ri == Lobbies_room(lobbies, p.mode, p.cur_lobby, p.cur_room)
        ack(st) == Direct(who, None, Pkt("ACK_GAMESTART", st, 0))
        ws == CASE p.mode = "Single" ->
                     <<Direct(who, None, Pkt("ORD_GAMESTART", 1, <<p.cid>>)), ack(0)>>
                [] p.mode = "VS" /\ ri # 0 ->
                     LET room == lobbies[p.mode][p.cur_lobby + 1].rooms[ri] IN
                     GameStartWrites(room.members,
                                     Pkt("ORD_GAMESTART", Len(room.members), room.members))
                     \o <<ack(0)>>
                [] p.mode = "VS" /\ ri = 0 -> <<ack(0 - 1)>>
                [] OTHER -> <<>>
        r == RunWrites(ws, conns, conn_lookup)
    IN /\ sent' = r.out
       /\ actor' = IF r.status = "panic" THEN "panicked" ELSE actor
       /\ last' = Outcome("StartGame", p.cid, 0,
                          CASE p.mode = "Single" -> r.status
                            [] p.mode = "VS" /\ ri # 0 -> r.status
                            [] p.mode = "VS" /\ ri = 0 -> "not_in_room"
                            [] OTHER -> "bail_mode")
       /\ UNCHANGED <<next_cid, conns, conn_lookup, lobbies>>

----------------------------------------------------------------------------
Init ==
    /\ next_cid = CID_MIN
    /\ conns = <<>>
    /\ conn_lookup = EmptyLookup
    /\ lobbies = create_initial_lobbies
    /\ actor = "running"
    /\ sent = <<>>
    /\ last = [op |-> "Init"]
    /\ queue = <<>>
    /\ tasks = <<>>
    /\ stream = <<>>
    /\ codec = <<>>
    /\ db = <<>>

----------------------------------------------------------------------------
(* Message::PlayerData *)

\* the frames a connection sends after its login, by opcode (header.id) and payload:
\* REQ_CHG_MODE(VS), REQ_ENTER_LOBBY(0), a REQ_MAKE_ROOM, REQ_ULIST(VS, 0, 0),
\* and a frame with 314, an opcode the Packet enum has no variant for
ConnFrames ==
    <<[id |-> 8, a |-> <<"VS">>],
     [id |-> 14, a |-> <<0>>],
     [id |-> 16, a |-> <<[mode |-> "VS", lobby |-> 0, member_max |-> 1,
                          flag_password |-> FALSE, room_password |-> ""]>>],
     [id |-> 22, a |-> <<"VS", 0, 0>>],
     [id |-> 314, a |-> <<1>>]>>

\* mutant: an opcode without variant is read as REQ_ENTER_LOBBY
Decode_guesses(frame) ==
    CASE frame.id = 8 -> Pkt("REQ_CHG_MODE", frame.a[1], 0)
      [] frame.id = 16 -> Pkt("REQ_MAKE_ROOM", frame.a[1], 0)
      [] frame.id = 22 -> Pkt("REQ_ULIST", frame.a, 0)
      [] OTHER -> Pkt("REQ_ENTER_LOBBY", frame.a[1], 0)

\* EntirePacket::from_bytes picks the variant of Packet by header.id; every id
\* without a variant of its own falls to `id_pat = "_"`, Unknown, which has
\* no fields
Decode(frame) ==
    CASE frame.id = 8 -> Pkt("REQ_CHG_MODE", frame.a[1], 0)
      [] frame.id = 14 -> Pkt("REQ_ENTER_LOBBY", frame.a[1], 0)
      [] frame.id = 16 -> Pkt("REQ_MAKE_ROOM", frame.a[1], 0)
      [] frame.id = 22 -> Pkt("REQ_ULIST", frame.a, 0)
      [] OTHER -> Pkt("Unknown", 0, 0)

\* header.pid of the frames
ConnPid == CHOOSE pid \in Pids : TRUE

\* handle_player_data: the match on the packet, of which `_` is the last arm
handle_player_data(who, pid, pkt) ==
    CASE pkt.op = "REQ_CHG_MODE" -> handle_change_mode(who, pkt.a)
      [] pkt.op = "REQ_ENTER_LOBBY" -> handle_enter_lobby(who, pkt.a)
      [] pkt.op = "REQ_MAKE_ROOM" -> handle_make_room(pid, who, pkt.a)
      [] pkt.op = "REQ_ULIST" ->
            handle_get_room_members(pid, who, pkt.a[1], pkt.a[2], pkt.a[3])
      [] OTHER ->
            /\ last' = Outcome("PlayerData", conns[who].cid, pkt, "unhandled")
            /\ sent' = <<>>
            /\ UNCHANGED <<next_cid, conns, conn_lookup, lobbies, actor>>

\* mutant: the index is taken with conn_lookup[&cid], which panics
on_player_data_unwrap(cid, pid, pkt) ==
    IF cid \notin DOMAIN conn_lookup THEN
        /\ last' = Outcome("PlayerData", cid, pkt, "panic")
        /\ sent' = <<>>
        /\ actor' = "panicked"
        /\ UNCHANGED <<next_cid, conns, conn_lookup, lobbies>>
    ELSE handle_player_data(conn_lookup[cid], pid, pkt)

\* the Message::PlayerData arm of the actor's loop: conn_lookup.get(&cid) is
\* None for a CID without session, and the packet is left alone
on_player_data(cid, pid, pkt) ==
    IF cid \notin DOMAIN conn_lookup THEN
        /\ last' = Outcome("PlayerData", cid, pkt, "spooky")
        /\ sent' = <<>>
        /\ UNCHANGED <<next_cid, conns, conn_lookup, lobbies, actor>>
    ELSE handle_player_data(conn_lookup[cid], pid, pkt)

----------------------------------------------------------------------------
(* The session actor's message loop, one message per step.  The message is  *)
(* whatever a sender may have queued: a Login, a Logout, or a PlayerData,   *)
(* of a registered CID or of one that has no session.                       *)

RoomData ==
    {[mode |-> "VS", lobby |-> 0, member_max |-> 0, flag_password |-> FALSE, room_password |-> ""],
     [mode |-> "VS", lobby |-> 0, member_max |-> 1, flag_password |-> FALSE, room_password |-> ""],
     [mode |-> "VS", lobby |-> 0, member_max |-> MaxMemberMax, flag_password |-> TRUE, room_password |-> "abc"],
     [mode |-> "VS", lobby |-> 1, member_max |-> 1, flag_password |-> FALSE, room_password |-> ""]}

RoomInputs == 0 .. MaxRooms - 1

Who(cid) == conn_lookup[cid]

Login ==
    /\ actor = "running"
    /\ Len(conns) < MaxPlayers
    /\ next_cid < CID_MIN + MaxLogins
    /\ \E auth \in {0} \cup Accounts : handle_login(auth)
    /\ UNCHANGED <<queue, tasks, stream, codec, db>>

\* CIDs without session that a message may name
StrayCids == (CID_MIN .. (CID_MIN + MaxLogins - 1)) \ DOMAIN conn_lookup

Logout ==
    /\ actor = "running"
    /\ \E cid \in DOMAIN conn_lookup \cup StrayCids : remove_player(cid)
    /\ UNCHANGED <<queue, tasks, stream, codec, db>>

\* a PlayerData that names a CID without session
StrayPlayerData ==
    /\ actor = "running"
    /\ \E cid \in StrayCids, k \in DOMAIN ConnFrames :
          on_player_data(cid, ConnPid, Decode(ConnFrames[k]))
    /\ UNCHANGED <<queue, tasks, stream, codec, db>>

ConnectionEnds ==
    /\ \E who \in 1 .. Len(conns) : DropReceiver(who)
    /\ UNCHANGED <<queue, tasks, stream, codec, db>>

ChangeMode ==
    /\ actor = "running"
    /\ \E cid \in DOMAIN conn_lookup, m \in ModeInputs : handle_change_mode(Who(cid), m)
    /\ UNCHANGED <<queue, tasks, stream, codec, db>>

EnterLobby ==
    /\ actor = "running"
    /\ \E cid \in DOMAIN conn_lookup, num \in LobbyInputs : handle_enter_lobby(Who(cid), num)
    /\ UNCHANGED <<queue, tasks, stream, codec, db>>

MakeRoom ==
    /\ actor = "running"
    /\ \E cid \in DOMAIN conn_lookup, pid \in Pids, data \in RoomData :
          /\ Lobbies_has_lobby(lobbies, data.mode, data.lobby)
                => Len(lobbies[data.mode][data.lobby + 1].rooms) < MaxRooms
          /\ handle_make_room(pid, Who(cid), data)
    /\ UNCHANGED <<queue, tasks, stream, codec, db>>

EnterRoom ==
    /\ actor = "running"
    /\ \E cid \in DOMAIN conn_lookup, pid \in Pids, room \in RoomInputs,
          pw \in Passwords :
          handle_enter_room(pid, Who(cid), room, pw)
    /\ UNCHANGED <<queue, tasks, stream, codec, db>>

ShotClub ==
    /\ actor = "running"
    /\ \E cid \in DOMAIN conn_lookup : handle_shot_club(Who(cid), 1)
    /\ UNCHANGED <<queue, tasks, stream, codec, db>>

GetRoomMembers ==
    /\ actor = "running"
    /\ \E cid \in DOMAIN conn_lookup, pid \in Pids, room \in RoomInputs :
          handle_get_room_members(pid, Who(cid), "VS", 0, room)
    /\ UNCHANGED <<queue, tasks, stream, codec, db>>

StartGame ==
    /\ actor = "running"
    /\ \E cid \in DOMAIN conn_lookup : handle_start_game(Who(cid))
    /\ UNCHANGED <<queue, tasks, stream, codec, db>>

Next ==
    \/ Login
    \/ Logout
    \/ StrayPlayerData
    \/ ConnectionEnds
    \/ ChangeMode
    \/ EnterLobby
    \/ MakeRoom
    \/ EnterRoom
    \/ ShotClub
    \/ GetRoomMembers
    \/ StartGame

Spec == Init /\ [][Next]_vars

----------------------------------------------------------------------------
(* The same actor with up to MaxCrowd sessions that all head for one room   *)
(* of the VS lobby: the requests are a subset of those of Spec.             *)

MaxCrowd == 3

CrowdRoomData ==
    [mode |-> "VS", lobby |-> 0, member_max |-> MaxCrowd,
     flag_password |-> FALSE, room_password |-> ""]

CrowdLogin ==
    /\ actor = "running"
    /\ Len(conns) < MaxCrowd
    /\ next_cid < CID_MIN + MaxCrowd
    /\ \E auth \in 1 .. MaxCrowd : handle_login(auth)
    /\ UNCHANGED <<queue, tasks, stream, codec, db>>

CrowdChangeMode ==
    /\ actor = "running"
    /\ \E cid \in DOMAIN conn_lookup :
          conns[Who(cid)].mode = "None" /\ handle_change_mode(Who(cid), "VS")
    /\ UNCHANGED <<queue, tasks, stream, codec, db>>

CrowdEnterLobby ==
    /\ actor = "running"
    /\ \E cid \in DOMAIN conn_lookup :
          conns[Who(cid)].mode = "VS" /\ handle_enter_lobby(Who(cid), 0)
    /\ UNCHANGED <<queue, tasks, stream, codec, db>>

CrowdMakeRoom ==
    /\ actor = "running"
    /\ lobbies["VS"][1].rooms = <<>>
    /\ \E cid \in DOMAIN conn_lookup, pid \in Pids :
          handle_make_room(pid, Who(cid), CrowdRoomData)
    /\ UNCHANGED <<queue, tasks, stream, codec, db>>

CrowdEnterRoom ==
    /\ actor = "running"
    /\ \E cid \in DOMAIN conn_lookup, pid \in Pids :
          handle_enter_room(pid, Who(cid), 0, "")
    /\ UNCHANGED <<queue, tasks, stream, codec, db>>

NextCrowd ==
    \/ CrowdLogin
    \/ ConnectionEnds
    \/ CrowdChangeMode
    \/ CrowdEnterLobby
    \/ CrowdMakeRoom
    \/ CrowdEnterRoom

SpecCrowd == Init /\ [][NextCrowd]_vars

----------------------------------------------------------------------------
(* Room number allocation on its own: pick_free_room_num takes any room     *)
(* list sorted by number, so the lobby of the initial state holds the rooms *)
(* numbered by a set drawn from the family below (a few low and high        *)
(* numbers, or everything but those), and one session of that lobby asks    *)
(* for a room.                                                              *)

RoomNumbers == 0 .. ROOM_NUM_LIMIT

EdgeNumbers == {0, 1, 2, 3, ROOM_NUM_LIMIT - 1, ROOM_NUM_LIMIT}

RoomNumberSets ==
    (SUBSET EdgeNumbers) \cup {RoomNumbers \ S : S \in SUBSET EdgeNumbers}

\* the rooms numbered by the members of S, in ascending order
SortedRooms(S) ==
    [i \in 1 .. Cardinality(S) |->
        [room_num |-> CHOOSE n \in S : Cardinality({m \in S : m < n}) = i - 1,
         members |-> <<>>, max_members |-> 1,
         password |-> NoPassword, current_player |-> 0 - 1]]

InitRooms ==
    /\ next_cid = CID_MIN + 1
    /\ conns = <<[cid |-> CID_MIN, uid |-> 1, mode |-> "VS",
                  cur_lobby |-> 0, cur_room |-> 0 - 1, open |-> TRUE]>>
    /\ conn_lookup = MapInsert(EmptyLookup, CID_MIN, 1)
    /\ \E S \in RoomNumberSets :
          lobbies = [create_initial_lobbies EXCEPT
                        !["VS"][1].members = <<CID_MIN>>,
                        !["VS"][1].rooms = SortedRooms(S)]
    /\ actor = "running"
    /\ sent = <<>>
    /\ last = [op |-> "Init"]
    /\ queue = <<>>
    /\ tasks = <<>>
    /\ stream = <<>>
    /\ codec = <<>>
    /\ db = <<>>

RoomsMakeRoom ==
    /\ actor = "running"
    /\ \E pid \in Pids, data \in RoomData : handle_make_room(pid, 1, data)
    /\ UNCHANGED <<queue, tasks, stream, codec, db>>

NextRooms == RoomsMakeRoom

SpecRooms == InitRooms /\ [][NextRooms]_vars

----------------------------------------------------------------------------
(* The connection tasks and the actor's queue: run_connection spawns a task *)
(* per connection, every task sends its Messages into the one mpsc channel  *)
(* of the actor, and the actor's loop takes them one at a time, in order.   *)

NumTasks == 2

MaxQueue == 2

MaxConnLogins == 2

\* the messages one connection sends from its relay loop, Logout included
MaxSends == 4

Tasks == 1 .. NumTasks

\* the one client version the login server accepts
EXPECTED_VERSION == 956

\* IDPass.version of a SEND_IDPASS_G: the expected version and another one
Versions == {EXPECTED_VERSION, EXPECTED_VERSION - 1}

\* relayed is the last Fail code do_handshake wrote to the client, ignored
\* says that it has read and passed over a packet other than SEND_IDPASS_G,
\* seq counts the messages the relay loop has sent
IdleTask == [st |-> "Closed", cid |-> 0 - 1, result |-> "None",
             rival |-> 0, rival_result |-> "None",
             relayed |-> "None", ignored |-> FALSE, seq |-> 0]

\* seq is the place of the message among those its connection sent from the
\* relay loop, in the order of the frames on the wire; id is the opcode of the
\* frame a PlayerData was decoded from
Msg(type, task, auth, cid, pkt) ==
    [type |-> type, task |-> task, auth |-> auth, cid |-> cid, pkt |-> pkt,
     seq |-> 0, id |-> 0]

\* the queued Logins that carry the credentials of account auth
LoginsQueued(auth) ==
    {i \in 1 .. Len(queue) : queue[i].type = "Login" /\ queue[i].auth = auth}

InitConn ==
    /\ next_cid = CID_MIN
    /\ conns = <<>>
    /\ conn_lookup = EmptyLookup
    /\ lobbies = create_initial_lobbies
    /\ actor = "running"
    /\ sent = <<>>
    /\ last = [op |-> "Init"]
    /\ queue = <<>>
    /\ tasks = [t \in Tasks |-> IdleTask]
    /\ stream = <<>>
    /\ codec = <<>>
    /\ db = <<>>

\* run_connection, up to the first read of do_handshake
TaskConnect(t) ==
    /\ tasks[t].st = "Closed"
    /\ tasks' = [tasks EXCEPT ![t] = [IdleTask EXCEPT !.st = "Handshaking"]]
    /\ UNCHANGED <<next_cid, conns, conn_lookup, lobbies, actor, sent, last, queue, stream, codec, db>>

\* do_handshake reads a SEND_IDPASS_G and sends Message::Login with its IDPass
\* (the credentials, abstracted to auth, and the version); the task then
\* waits on the oneshot.  rival records the task of the one Login with the
\* same credentials that is in the queue at this moment, if the account has no
\* entry in conns; rival_result will record the answer that Login gets.
TaskSendLogin(t, auth, version) ==
    /\ tasks[t].st = "Handshaking"
    /\ actor # "panicked"
    /\ Len(queue) < MaxQueue
    /\ auth # 0 =>
          (next_cid - CID_MIN) + Cardinality({i \in 1 .. Len(queue) :
                queue[i].type = "Login" /\ queue[i].auth # 0}) < MaxConnLogins
    /\ queue' = Append(queue, Msg("Login", t, auth, 0 - 1, version))
    /\ tasks' = [tasks EXCEPT ![t] =
          [IdleTask EXCEPT
              !.st = "AwaitLogin",
              !.relayed = tasks[t].relayed,
              !.rival = IF /\ auth # 0
                           /\ Cardinality(LoginsQueued(auth)) = 1
                           /\ \A i \in 1 .. Len(conns) : conns[i].uid # auth
                        THEN queue[CHOOSE i \in LoginsQueued(auth) : TRUE].task
                        ELSE 0]]
    /\ UNCHANGED <<next_cid, conns, conn_lookup, lobbies, actor, sent, last, stream, codec, db>>

\* do_handshake reads a packet that is no SEND_IDPASS_G: the `if let` does not
\* match and the loop reads on
TaskIgnores(t) ==
    /\ tasks[t].st = "Handshaking"
    /\ tasks' = [tasks EXCEPT ![t].ignored = TRUE]
    /\ UNCHANGED <<next_cid, conns, conn_lookup, lobbies, actor, sent, last, queue, stream, codec, db>>

\* mutant: a Fail ends the handshake
TaskResume_fail_ends(t) ==
    /\ tasks[t].st = "Answered"
    /\ tasks' = [tasks EXCEPT ![t] =
          IF tasks[t].result = "Success"
          THEN [IdleTask EXCEPT !.st = "Relaying", !.cid = tasks[t].cid]
          ELSE IdleTask]
    /\ UNCHANGED <<next_cid, conns, conn_lookup, lobbies, actor, sent, last, queue, stream, codec, db>>

\* do_handshake after the oneshot resolved: Fail is relayed and the loop goes
\* on, Success returns into the relay loop of handle_connection
TaskResume(t) ==
    /\ tasks[t].st = "Answered"
    /\ tasks' = [tasks EXCEPT ![t] =
          IF tasks[t].result = "Success"
          THEN [IdleTask EXCEPT !.st = "Relaying", !.cid = tasks[t].cid]
          ELSE [IdleTask EXCEPT !.st = "Handshaking", !.relayed = tasks[t].result]]
    /\ UNCHANGED <<next_cid, conns, conn_lookup, lobbies, actor, sent, last, queue, stream, codec, db>>

\* do_handshake's read_packet returns None: Ok(None), the task ends
TaskLeaves(t) ==
    /\ tasks[t].st = "Handshaking"
    /\ tasks' = [tasks EXCEPT ![t] = IdleTask]
    /\ UNCHANGED <<next_cid, conns, conn_lookup, lobbies, actor, sent, last, queue, stream, codec, db>>

\* the relay loop reads a frame and forwards the decoded packet as
\* Message::PlayerData
\* mutant: the message is put before those already waiting
TaskSend_jumps_queue(t, frame) ==
    /\ tasks[t].st = "Relaying"
    /\ actor # "panicked"
    /\ Len(queue) < MaxQueue
    /\ tasks[t].seq + 1 < MaxSends
    /\ queue' = <<[Msg("PlayerData", t, 0, tasks[t].cid, Decode(frame))
                      EXCEPT !.seq = tasks[t].seq + 1, !.id = frame.id]>> \o queue
    /\ tasks' = [tasks EXCEPT ![t].seq = @ + 1]
    /\ UNCHANGED <<next_cid, conns, conn_lookup, lobbies, actor, sent, last, stream, codec, db>>

TaskSend(t, frame) ==
    /\ tasks[t].st = "Relaying"
    /\ actor # "panicked"
    /\ Len(queue) < MaxQueue
    /\ tasks[t].seq + 1 < MaxSends
    /\ queue' = Append(queue, [Msg("PlayerData", t, 0, tasks[t].cid, Decode(frame))
                                  EXCEPT !.seq = tasks[t].seq + 1, !.id = frame.id])
    /\ tasks' = [tasks EXCEPT ![t].seq = @ + 1]
    /\ UNCHANGED <<next_cid, conns, conn_lookup, lobbies, actor, sent, last, stream, codec, db>>

\* the ways the relay loop learns that the connection is over: the write of
\* an outbound packet fails, read_packet returns Ok(None) when the peer closed
\* the stream, or Err on a failed read or a frame parse_packet cannot decode
EndCauses == {"write_error", "closed_by_peer", "read_error", "decode_error"}

\* the relay loop on any of EndCauses: it sends Message::Logout and breaks
TaskEnds(t, cause) ==
    /\ tasks[t].st = "Relaying"
    /\ cause \in EndCauses
    /\ actor # "panicked"
    /\ Len(queue) < MaxQueue
    /\ queue' = Append(queue, [Msg("Logout", t, 0, tasks[t].cid, 0)
                                  EXCEPT !.seq = tasks[t].seq + 1])
    /\ tasks' = [tasks EXCEPT ![t].st = "Closing", ![t].seq = @ + 1]
    /\ UNCHANGED <<next_cid, conns, conn_lookup, lobbies, actor, sent, last, stream, codec, db>>

\* packet_rx.recv() returns None, every sender of the outbound channel being
\* dropped (the Player is out of conns, or the actor is gone with all of
\* conns): the relay loop breaks
TaskKicked(t) ==
    /\ tasks[t].st = "Relaying"
    /\ \/ actor = "panicked"
       \/ \A i \in 1 .. Len(conns) : conns[i].cid # tasks[t].cid
    /\ tasks' = [tasks EXCEPT ![t].st = "Closing"]
    /\ UNCHANGED <<next_cid, conns, conn_lookup, lobbies, actor, sent, last, queue, stream, codec, db>>

\* packet_rx is dropped with the task
DropOutbound(t) ==
    LET mine == {i \in 1 .. Len(conns) : conns[i].cid = tasks[t].cid /\ conns[i].open}
    IN IF mine = {}
       THEN UNCHANGED <<next_cid, conns, conn_lookup, lobbies, actor, sent, last>>
       ELSE DropReceiver(CHOOSE i \in mine : TRUE)

\* gs2.send fails in the relay loop, the actor's receiver being dropped: the
\* `?` returns the error out of handle_connection
TaskSendFails(t) ==
    /\ tasks[t].st = "Relaying"
    /\ actor = "panicked"
    /\ tasks' = [tasks EXCEPT ![t] = IdleTask]
    /\ DropOutbound(t)
    /\ UNCHANGED <<queue, stream, codec, db>>

\* after the relay loop: conn.shutdown(), then handle_connection returns
TaskDrop(t) ==
    /\ tasks[t].st = "Closing"
    /\ tasks' = [tasks EXCEPT ![t] = IdleTask]
    /\ DropOutbound(t)
    /\ UNCHANGED <<queue, stream, codec, db>>

\* the actor's loop, Message::Login arm
ActorLogin ==
    /\ actor = "running"
    /\ queue # <<>>
    /\ Head(queue).type = "Login"
    /\ handle_login(Head(queue).auth)
    /\ queue' = Tail(queue)
    /\ LET t == Head(queue).task IN
       tasks' = IF last'.res = "hang" THEN tasks
                ELSE [u \in Tasks |->
                        IF u = t
                        THEN [tasks[t] EXCEPT !.st = "Answered", !.cid = last'.cid,
                                              !.result = last'.res]
                        ELSE IF tasks[u].st = "AwaitLogin" /\ tasks[u].rival = t
                        THEN [tasks[u] EXCEPT !.rival_result = last'.res]
                        ELSE tasks[u]]
    /\ UNCHANGED <<stream, codec, db>>

\* the actor's loop, Message::Logout arm
ActorLogout ==
    /\ actor = "running"
    /\ queue # <<>>
    /\ Head(queue).type = "Logout"
    /\ remove_player(Head(queue).cid)
    /\ queue' = Tail(queue)
    /\ UNCHANGED <<tasks, stream, codec, db>>

\* the actor's loop, Message::PlayerData arm
ActorPlayerData ==
    /\ actor = "running"
    /\ queue # <<>>
    /\ Head(queue).type = "PlayerData"
    /\ on_player_data(Head(queue).cid, ConnPid, Head(queue).pkt)
    /\ queue' = Tail(queue)
    /\ UNCHANGED <<tasks, stream, codec, db>>

NextConn ==
    \/ \E t \in Tasks : TaskConnect(t)
    \/ \E t \in Tasks, auth \in {0} \cup Accounts, version \in Versions :
          TaskSendLogin(t, auth, version)
    \/ \E t \in Tasks : TaskIgnores(t)
    \/ \E t \in Tasks : TaskResume(t)
    \/ \E t \in Tasks : TaskLeaves(t)
    \/ \E t \in Tasks, k \in DOMAIN ConnFrames : TaskSend(t, ConnFrames[k])
    \/ \E t \in Tasks, cause \in EndCauses : TaskEnds(t, cause)
    \/ \E t \in Tasks : TaskKicked(t)
    \/ \E t \in Tasks : TaskSendFails(t)
    \/ \E t \in Tasks : TaskDrop(t)
    \/ ActorLogin
    \/ ActorLogout
    \/ ActorPlayerData

SpecConn == InitConn /\ [][NextConn]_vars

----------------------------------------------------------------------------
(* The same actor over a long run: no limit on the number of logins, so     *)
(* that next_cid goes round the whole range CID_MIN..CID_MAX.  Account 1    *)
(* logs in once, first; account 2 logs in and out any number of times; the  *)
(* requests are those that lead into the VS lobby.                          *)

CidLogin ==
    /\ actor = "running"
    /\ Len(conns) < MaxPlayers
    /\ \E auth \in Accounts :
          /\ auth = 1 => (conns = <<>> /\ next_cid = CID_MIN)
          /\ handle_login(auth)
    /\ UNCHANGED <<queue, tasks, stream, codec, db>>

NextCid ==
    \/ CidLogin
    \/ Logout
    \/ ConnectionEnds
    \/ CrowdChangeMode
    \/ CrowdEnterLobby

SpecCid == Init /\ [][NextCid]_vars

----------------------------------------------------------------------------
(* Connection::read_packet on its own (stream.rs).  The peer sends frames,  *)
(* each a 16-bit little-endian length and that many payload bytes; the TLS  *)
(* stream hands the bytes over in chunks of any size, and may end anywhere. *)
(* stream.sent are the payloads the peer sent, stream.wire the bytes not    *)
(* yet read, stream.got the packets read_packet has returned.               *)

MaxFrames == 2

\* the payloads the peer sends: header (id, pid: i16 each) and body.  The
\* third carries in its body the bytes of a whole frame, the last two are
\* too short for a PacketHeader.
Payloads ==
    {<<8, 0, 7, 0, 1>>,
     <<14, 0, 7, 0>>,
     <<22, 0, 4, 0, 14, 0, 7, 0>>,
     <<1, 0>>,
     <<>>}

\* write_u16_le of the length, then the payload
Frame(payload) == <<Len(payload) % 256, Len(payload) \div 256>> \o payload

RECURSIVE Wire(_)
Wire(payloads) ==
    IF payloads = <<>> THEN <<>> ELSE Frame(Head(payloads)) \o Wire(Tail(payloads))

\* EntirePacket::from_bytes: the header's two i16, little-endian, and the rest
\* for the body; an Err when the payload ends inside the header
from_bytes(payload) ==
    IF Len(payload) < 4 THEN [ok |-> FALSE]
    ELSE [ok |-> TRUE,
          id |-> payload[1] + 256 * payload[2],
          pid |-> payload[3] + 256 * payload[4],
          body |-> SubSeq(payload, 5, Len(payload))]

\* mutant: the buffer is advanced by the length of the payload alone
parse_packet_short(buffer) ==
    IF Len(buffer) < 2 THEN [r |-> "None", buffer |-> buffer]
    ELSE LET packet_size == buffer[1] + 256 * buffer[2] IN
         IF Len(buffer) < packet_size + 2 THEN [r |-> "None", buffer |-> buffer]
         ELSE LET payload == SubSeq(buffer, 3, 2 + packet_size)
                  p == from_bytes(payload)
              IN IF ~p.ok THEN [r |-> "Err", buffer |-> buffer]
                 ELSE [r |-> "Some", packet |-> p,
                       buffer |-> SubSeq(buffer, 1 + packet_size, Len(buffer))]

\* Connection::parse_packet: r is None while the frame is incomplete
parse_packet(buffer) ==
    IF Len(buffer) < 2 THEN [r |-> "None", buffer |-> buffer]
    ELSE LET packet_size == buffer[1] + 256 * buffer[2] IN
         IF Len(buffer) < packet_size + 2 THEN [r |-> "None", buffer |-> buffer]
         ELSE LET payload == SubSeq(buffer, 3, 2 + packet_size)
                  p == from_bytes(payload)
              IN IF ~p.ok THEN [r |-> "Err", buffer |-> buffer]
                 ELSE [r |-> "Some", packet |-> p,
                       buffer |-> SubSeq(buffer, 3 + packet_size, Len(buffer))]

\* Connection::new, with what the peer will send
InitRead ==
    /\ next_cid = CID_MIN
    /\ conns = <<>>
    /\ conn_lookup = EmptyLookup
    /\ lobbies = create_initial_lobbies
    /\ actor = "running"
    /\ sent = <<>>
    /\ last = [op |-> "Init"]
    /\ queue = <<>>
    /\ tasks = <<>>
    /\ codec = <<>>
    /\ db = <<>>
    /\ \E n \in 1 .. MaxFrames : \E ps \in [1 .. n -> Payloads] :
          \E cut \in 0 .. Len(Wire(ps)) :
              stream = [sent |-> ps,
                        cut |-> cut,
                        wire |-> SubSeq(Wire(ps), 1, cut),
                        buffer |-> <<>>,
                        got |-> <<>>,
                        st |-> "reading"]

\* read_packet, the top of the loop: parse_packet has a whole frame and
\* returns the packet, or the error of from_bytes
ReadPacketParses ==
    /\ stream.st = "reading"
    /\ LET p == parse_packet(stream.buffer) IN
       /\ p.r # "None"
       /\ stream' = IF p.r = "Some"
                    THEN [stream EXCEPT !.buffer = p.buffer,
                                        !.got = Append(@, p.packet)]
                    ELSE [stream EXCEPT !.st = "Err"]
    /\ UNCHANGED <<next_cid, conns, conn_lookup, lobbies, actor, sent, last, queue,
                   tasks, codec, db>>

\* read_packet after parse_packet returned None: read_buf appends the next
\* chunk, of n bytes
ReadPacketReads(n) ==
    /\ stream.st = "reading"
    /\ parse_packet(stream.buffer).r = "None"
    /\ n \in 1 .. Len(stream.wire)
    /\ stream' = [stream EXCEPT !.buffer = @ \o SubSeq(stream.wire, 1, n),
                                !.wire = SubSeq(@, n + 1, Len(@))]
    /\ UNCHANGED <<next_cid, conns, conn_lookup, lobbies, actor, sent, last, queue,
                   tasks, codec, db>>

\* read_buf returns 0, the peer having closed the stream: Ok(None)
ReadPacketEof ==
    /\ stream.st = "reading"
    /\ parse_packet(stream.buffer).r = "None"
    /\ stream.wire = <<>>
    /\ stream' = [stream EXCEPT !.st = "Eof"]
    /\ UNCHANGED <<next_cid, conns, conn_lookup, lobbies, actor, sent, last, queue,
                   tasks, codec, db>>

NextRead ==
    \/ ReadPacketParses
    \/ \E n \in 1 .. Len(stream.wire) : ReadPacketReads(n)
    \/ ReadPacketEof

SpecRead == InitRead /\ [][NextRead]_vars

----------------------------------------------------------------------------
(* The writing side of a Connection (stream.rs) as the relay loop drives   *)
(* it: each message taken from packet_rx is written with the pid that came *)
(* with it, or with next_pid.  stream.req is the pid that came with the    *)
(* last message, stream.out the pid in the header of the frame written for *)
(* it, stream.pushes the number of frames written with a pid of next_pid.  *)

\* next_pid is an i16
I16_MAX == 32767

\* the pids the session actor sends along with its replies
ReplyPids == {7, 1}

\* the pushes of one connection
MaxPushes == 32768

\* mutant: the counter is left alone
next_pid_kept(pid) == {[panic |-> FALSE, v |-> pid]}

\* `self.next_pid += 1`: the i16 overflows at I16_MAX, which panics where
\* overflow checks are compiled in and wraps where they are not
next_pid_incremented(pid) ==
    IF pid < I16_MAX THEN {[panic |-> FALSE, v |-> pid + 1]}
    ELSE {[panic |-> TRUE, v |-> pid], [panic |-> FALSE, v |-> 0 - I16_MAX - 1]}

\* Connection::new
InitWrite ==
    /\ next_cid = CID_MIN
    /\ conns = <<>>
    /\ conn_lookup = EmptyLookup
    /\ lobbies = <<>>
    /\ actor = "running"
    /\ sent = <<>>
    /\ last = [op |-> "Init"]
    /\ queue = <<>>
    /\ tasks = <<>>
    /\ codec = <<>>
    /\ db = <<>>
    /\ stream = [next_pid |-> 1, req |-> None, out |-> None, pushes |-> 0, st |-> "open"]

\* the relay loop takes (None, packet) from packet_rx: write_packet, which
\* takes next_pid, increments it and goes on into write_packet_with_pid; ok
\* says whether the writes to the TLS stream succeed
WritePacket(ok) ==
    /\ stream.st = "open"
    /\ stream.pushes < MaxPushes
    /\ \E n \in next_pid_incremented(stream.next_pid) :
          stream' =
              IF n.panic THEN [stream EXCEPT !.req = None, !.out = None, !.st = "panicked"]
              ELSE IF ok THEN [stream EXCEPT !.req = None,
                                             !.out = Some(stream.next_pid),
                                             !.next_pid = n.v,
                                             !.pushes = @ + 1]
              ELSE [stream EXCEPT !.req = None, !.out = None, !.next_pid = n.v,
                                  !.st = "Err"]
    /\ UNCHANGED <<next_cid, conns, conn_lookup, lobbies, actor, sent, last, queue,
                   tasks, codec, db>>

\* the relay loop takes (Some(pid), packet) from packet_rx:
\* write_packet_with_pid
WritePacketWithPid(pid, ok) ==
    /\ stream.st = "open"
    /\ stream' = IF ok THEN [stream EXCEPT !.req = Some(pid), !.out = Some(pid)]
                 ELSE [stream EXCEPT !.req = Some(pid), !.out = None, !.st = "Err"]
    /\ UNCHANGED <<next_cid, conns, conn_lookup, lobbies, actor, sent, last, queue,
                   tasks, codec, db>>

NextWrite ==
    \/ \E ok \in BOOLEAN : WritePacket(ok)
    \/ \E pid \in ReplyPids, ok \in BOOLEAN : WritePacketWithPid(pid, ok)

SpecWrite == InitWrite /\ [][NextWrite]_vars

----------------------------------------------------------------------------
(* The packed values of src/data.  These are functions without state: the   *)
(* initial state holds an input, an action applies a function to it, and    *)
(* codec then records the function, the input and the result.  A Result is  *)
(* a record with ok, and v when ok.                                         *)

Ok(v) == [ok |-> TRUE, v |-> v]
Err == [ok |-> FALSE, v |-> 0]

\* the state of the actor's variables where they play no part
Idle ==
    /\ next_cid = CID_MIN
    /\ conns = <<>>
    /\ conn_lookup = EmptyLookup
    /\ lobbies = <<>>
    /\ actor = "running"
    /\ sent = <<>>
    /\ last = [op |-> "Init"]
    /\ queue = <<>>
    /\ tasks = <<>>
    /\ stream = <<>>
    /\ db = <<>>

(* Appearance: the 10-bit optional sub-field (0x3FF = 1023, 0x3FE = 1022) *)

\* the largest value of a u16
U16_MAX == 65535

\* mutant: 0x3FF is taken for absent
unpack_optional_strict(input) ==
    IF input >= 1 /\ input <= 1022 THEN Some(input - 1) ELSE None

unpack_optional(input) ==
    IF input >= 1 /\ input <= 1023 THEN Some(input - 1) ELSE None

\* mutant: 0x3FD is the largest value packed
pack_optional_narrow(input) ==
    IF ~input.some THEN Ok(0)
    ELSE IF input.v <= 1021 THEN Ok(input.v + 1)
    ELSE Err

pack_optional(input) ==
    IF ~input.some THEN Ok(0)
    ELSE IF input.v <= 1022 THEN Ok(input.v + 1)
    ELSE Err

\* the values a sub-field of 10 bits can hold
TenBits == 0 .. 1023

\* Option<u16> values: None, those around the limit of the sub-field, the
\* largest u16
OptionalInputs == {None} \cup {Some(n) : n \in (0 .. 1025) \cup {U16_MAX}}

\* a packed sub-field, or a value to pack
InitOptional ==
    /\ Idle
    /\ \/ \E input \in TenBits : codec = [op |-> "packed", in |-> input]
       \/ \E input \in OptionalInputs : codec = [op |-> "value", in |-> input]

UnpackOptional(input) ==
    /\ codec = [op |-> "packed", in |-> input]
    /\ codec' = [op |-> "unpack_optional", in |-> input, out |-> unpack_optional(input)]
    /\ UNCHANGED <<next_cid, conns, conn_lookup, lobbies, actor, sent, last, queue,
                   tasks, stream, db>>

PackOptional(input) ==
    /\ codec = [op |-> "value", in |-> input]
    /\ codec' = [op |-> "pack_optional", in |-> input, out |-> pack_optional(input)]
    /\ UNCHANGED <<next_cid, conns, conn_lookup, lobbies, actor, sent, last, queue,
                   tasks, stream, db>>

\* pack_optional, and unpack_optional of the packed sub-field
RepackOptional(input) ==
    /\ codec = [op |-> "value", in |-> input]
    /\ LET packed == pack_optional(input) IN
       codec' = [op |-> "repack_optional", in |-> input, packed |-> packed,
                 out |-> IF packed.ok THEN Ok(unpack_optional(packed.v)) ELSE Err]
    /\ UNCHANGED <<next_cid, conns, conn_lookup, lobbies, actor, sent, last, queue,
                   tasks, stream, db>>

NextOptional ==
    \/ \E input \in TenBits : UnpackOptional(input)
    \/ \E input \in OptionalInputs : PackOptional(input)
    \/ \E input \in OptionalInputs : RepackOptional(input)

SpecOptional == InitOptional /\ [][NextOptional]_vars

(* u32 arithmetic: a u32 is the pair of its high and low 16 bits *)

\* the number of values of 16 bits
Half == 65536

RECURSIVE Pow2(_)
Pow2(n) == IF n = 0 THEN 1 ELSE 2 * Pow2(n - 1)

\* x as u32, for a u16 x
AsU32(x) == <<0, x>>

\* w << n and w >> n on u32, n below 32
Shl(w, n) ==
    IF n >= 16 THEN <<(w[2] * Pow2(n - 16)) % Half, 0>>
    ELSE <<((w[1] * Pow2(n)) % Half) + ((w[2] * Pow2(n)) \div Half), (w[2] * Pow2(n)) % Half>>
Shr(w, n) ==
    IF n >= 16 THEN <<0, w[1] \div Pow2(n - 16)>>
    ELSE <<w[1] \div Pow2(n), (w[2] \div Pow2(n)) + ((w[1] % Pow2(n)) * Pow2(16 - n))>>

\* (w & (2^n - 1)) as u16, n at most 16
LowBits(w, n) == w[2] % Pow2(n)

RECURSIVE OrBits(_, _)
OrBits(x, y) ==
    IF x = 0 THEN y
    ELSE IF y = 0 THEN x
    ELSE (IF x % 2 = 1 \/ y % 2 = 1 THEN 1 ELSE 0) + 2 * OrBits(x \div 2, y \div 2)

\* v | w
BitOr(v, w) == <<OrBits(v[1], w[1]), OrBits(v[2], w[2])>>

(* CharID *)

CharIDs == {"Rusk", "Miel", "Rose", "Chocola", "Shelly", "Gouda", "Sect"}

to_index(c) ==
    CASE c = "Rusk" -> 1
      [] c = "Miel" -> 2
      [] c = "Rose" -> 3
      [] c = "Chocola" -> 4
      [] c = "Shelly" -> 5
      [] c = "Gouda" -> 6
      [] c = "Sect" -> 7

\* Option<CharID>
from_index(index) ==
    IF \E c \in CharIDs : to_index(c) = index
    THEN [some |-> TRUE, v |-> CHOOSE c \in CharIDs : to_index(c) = index]
    ELSE [some |-> FALSE, v |-> "Rusk"]

(* Appearance: nine u32 words *)

\* the Option<u16> fields, the u16 fields kept in 10 bits and those kept in 8
OptionalFields == {"head", "face", "glasses", "tops", "bottoms", "shoes", "gloves",
                   "wing", "club", "skirt", "default_tops", "default_bottoms",
                   "default_shoes"}
TenBitFields == {"hair_style", "hair_color", "face_paint", "default_hair_color"}
EightBitFields == {"eye_color", "skin_color", "default_eye_color", "default_skin_color"}
AppearanceFields == {"character_id"} \cup OptionalFields \cup TenBitFields \cup EightBitFields

\* the values a field is given: the ends of its range, and values beyond it
FieldValues(f) ==
    IF f = "character_id" THEN CharIDs
    ELSE IF f \in OptionalFields THEN {None, Some(0), Some(681), Some(1022), Some(1023)}
    ELSE IF f \in TenBitFields THEN {0, 1, 682, 1023, 1024, U16_MAX}
    ELSE {0, 1, 170, 255, 256, U16_MAX}

BaseAppearance ==
    [f \in AppearanceFields |->
        IF f = "character_id" THEN "Rusk" ELSE IF f \in OptionalFields THEN None ELSE 0]

\* every field is within the bits the words have for it
InRange(a) ==
    /\ \A f \in OptionalFields : a[f].some => a[f].v <= 1022
    /\ \A f \in TenBitFields : a[f] <= 1023
    /\ \A f \in EightBitFields : a[f] <= 255

\* (x as u32) << n, and pack_optional(x)? << n
Plain(x, n) == Ok(Shl(AsU32(x), n))
Packed(x, n) == IF pack_optional(x).ok THEN Ok(Shl(AsU32(pack_optional(x).v), n)) ELSE Err

\* the word built from three fields; a `?` on pack_optional leaves the word
\* unwritten
Word3(x, y, z) ==
    IF x.ok /\ y.ok /\ z.ok THEN Ok(BitOr(BitOr(x.v, y.v), z.v)) ELSE Err

\* mutant: skin_color is put 6 bits up
Appearance_words_skin6(a) ==
    <<Word3(Plain(to_index(a.character_id), 2), Plain(a.face_paint, 8),
            Packed(a.head, 18)),
      Word3(Packed(a.glasses, 0),
            Packed(a.tops, 10),
            Packed(a.bottoms, 20)),
      Word3(Packed(a.shoes, 0),
            Packed(a.gloves, 10),
            Packed(a.wing, 20)),
      Word3(Packed(a.club, 0),
            Packed(a.face, 10),
            Packed(a.skirt, 20)),
      Plain(0, 0),
      Word3(Plain(0, 0), Plain(a.hair_style, 10), Plain(a.hair_color, 20)),
      Word3(Plain(a.eye_color, 0), Plain(a.skin_color, 6),
            Packed(a.default_tops, 16)),
      Word3(Packed(a.default_bottoms, 0),
            Packed(a.default_shoes, 10),
            Plain(a.default_hair_color, 20)),
      Word3(Plain(0, 0), Plain(a.default_eye_color, 0), Plain(a.default_skin_color, 8))>>

\* the nine words of Appearance::write, each the Result of building it
Appearance_words(a) ==
    <<Word3(Plain(to_index(a.character_id), 2), Plain(a.face_paint, 8),
            Packed(a.head, 18)),
      Word3(Packed(a.glasses, 0),
            Packed(a.tops, 10),
            Packed(a.bottoms, 20)),
      Word3(Packed(a.shoes, 0),
            Packed(a.gloves, 10),
            Packed(a.wing, 20)),
      Word3(Packed(a.club, 0),
            Packed(a.face, 10),
            Packed(a.skirt, 20)),
      Plain(0, 0),
      Word3(Plain(0, 0), Plain(a.hair_style, 10), Plain(a.hair_color, 20)),
      Word3(Plain(a.eye_color, 0), Plain(a.skin_color, 8),
            Packed(a.default_tops, 16)),
      Word3(Packed(a.default_bottoms, 0),
            Packed(a.default_shoes, 10),
            Plain(a.default_hair_color, 20)),
      Word3(Plain(0, 0), Plain(a.default_eye_color, 0), Plain(a.default_skin_color, 8))>>

\* Appearance::write: the words written up to the first that fails, and Ok
\* when none does
Appearance_write(a) ==
    LET ws == Appearance_words(a)
        bad == {i \in 1 .. 9 : ~ws[i].ok}
        n == IF bad = {} THEN 9 ELSE (CHOOSE i \in bad : \A j \in bad : i <= j) - 1
    IN [ok |-> bad = {}, words |-> [i \in 1 .. n |-> ws[i].v]]

\* Appearance::read of nine words
Appearance_read(w) ==
    LET character_id == from_index(LowBits(Shr(w[1], 2), 6)) IN
    IF ~character_id.some THEN [ok |-> FALSE, v |-> BaseAppearance]
    ELSE [ok |-> TRUE, v |->
        [character_id |-> character_id.v,
         face_paint |-> LowBits(Shr(w[1], 8), 10),
         head |-> unpack_optional(LowBits(Shr(w[1], 18), 10)),
         glasses |-> unpack_optional(LowBits(w[2], 10)),
         tops |-> unpack_optional(LowBits(Shr(w[2], 10), 10)),
         bottoms |-> unpack_optional(LowBits(Shr(w[2], 20), 10)),
         shoes |-> unpack_optional(LowBits(w[3], 10)),
         gloves |-> unpack_optional(LowBits(Shr(w[3], 10), 10)),
         wing |-> unpack_optional(LowBits(Shr(w[3], 20), 10)),
         club |-> unpack_optional(LowBits(w[4], 10)),
         face |-> unpack_optional(LowBits(Shr(w[4], 10), 10)),
         skirt |-> unpack_optional(LowBits(Shr(w[4], 20), 10)),
         hair_style |-> LowBits(Shr(w[6], 10), 10),
         hair_color |-> LowBits(Shr(w[6], 20), 10),
         eye_color |-> LowBits(w[7], 8),
         skin_color |-> LowBits(Shr(w[7], 8), 8),
         default_tops |-> unpack_optional(LowBits(Shr(w[7], 16), 10)),
         default_bottoms |-> unpack_optional(LowBits(w[8], 10)),
         default_shoes |-> unpack_optional(LowBits(Shr(w[8], 10), 10)),
         default_hair_color |-> LowBits(Shr(w[8], 20), 10),
         default_eye_color |-> LowBits(w[9], 8),
         default_skin_color |-> LowBits(Shr(w[9], 8), 8)]]

\* an Appearance in which at most two fields differ from BaseAppearance
InitAppearance ==
    /\ Idle
    /\ \E f \in AppearanceFields, g \in AppearanceFields :
          \E x \in FieldValues(f), y \in FieldValues(g) :
              codec = [op |-> "appearance",
                       in |-> [[BaseAppearance EXCEPT ![f] = x] EXCEPT ![g] = y]]

AppearanceWrite ==
    /\ codec.op = "appearance"
    /\ codec' = [op |-> "write", in |-> codec.in, out |-> Appearance_write(codec.in)]
    /\ UNCHANGED <<next_cid, conns, conn_lookup, lobbies, actor, sent, last, queue,
                   tasks, stream, db>>

\* Appearance::write, and Appearance::read of the words written
AppearanceRewrite ==
    /\ codec.op = "appearance"
    /\ LET w == Appearance_write(codec.in) IN
       codec' = [op |-> "rewrite", in |-> codec.in, words |-> w,
                 out |-> IF w.ok THEN Appearance_read(w.words)
                         ELSE [ok |-> FALSE, v |-> BaseAppearance]]
    /\ UNCHANGED <<next_cid, conns, conn_lookup, lobbies, actor, sent, last, queue,
                   tasks, stream, db>>

NextAppearance ==
    \/ AppearanceWrite
    \/ AppearanceRewrite

SpecAppearance == InitAppearance /\ [][NextAppearance]_vars

(* Item: category, character and index in one u32 *)

\* ItemCategory without and with a CharID, in the order of the enum
GlobalCategories == {"ClubSet", "Ball", "CarryItemParameter", "CarryItemEnvironment",
                     "CarryItemGroundRes", "CarryItemPowerGauge", "CarryItemCaddy",
                     "HoldItemPoint", "HoldItemEvent", "HoldItemTicket", "HoldItemHumor",
                     "HoldItemSupport", "Caddy"}
CharaCategories == {"Head", "Glasses", "Tops", "Bottoms", "Shoes", "Gloves", "Wing",
                    "HairStyle", "HairColor", "SkinColor", "FacePaint", "EyeColor",
                    "HairStyleTicket", "HairColorTicket", "SkinColorTicket",
                    "FacePaintTicket", "EyeColorTicket", "Chara"}

Category(name, c) == [name |-> name, c |-> c]
Invalid == Category("Invalid", "")

\* every ItemCategory but Invalid
ItemCategories ==
    {Category(n, "") : n \in GlobalCategories}
        \cup {Category(n, c) : n \in CharaCategories, c \in CharIDs}

\* the arms of the match in Item::new
ItemCode(name) ==
    CASE name = "ClubSet" -> 2048                \* 0x800
      [] name = "Ball" -> 12288                  \* 0x3000
      [] name = "CarryItemParameter" -> 16384    \* 0x4000
      [] name = "CarryItemEnvironment" -> 20480  \* 0x5000
      [] name = "CarryItemGroundRes" -> 24576    \* 0x6000
      [] name = "CarryItemPowerGauge" -> 28672   \* 0x7000
      [] name = "CarryItemCaddy" -> 32768        \* 0x8000
      [] name = "HoldItemPoint" -> 36864         \* 0x9000
      [] name = "HoldItemEvent" -> 49152         \* 0xC000
      [] name = "HoldItemTicket" -> 53248        \* 0xD000
      [] name = "HoldItemHumor" -> 57344         \* 0xE000
      [] name = "HoldItemSupport" -> 65536       \* 0x10000
      [] name = "Caddy" -> 129024                \* 0x1F800
      [] name = "Head" -> 6144                   \* 0x1800
      [] name = "Glasses" -> 10240               \* 0x2800
      [] name = "Tops" -> 14336                  \* 0x3800
      [] name = "Bottoms" -> 18432               \* 0x4800
      [] name = "Shoes" -> 22528                 \* 0x5800
      [] name = "Gloves" -> 26624                \* 0x6800
      [] name = "Wing" -> 30720                  \* 0x7800
      [] name = "HairStyle" -> 63488             \* 0xF800
      [] name = "HairColor" -> 67584             \* 0x10800
      [] name = "SkinColor" -> 71680             \* 0x11800
      [] name = "FacePaint" -> 75776             \* 0x12800
      [] name = "EyeColor" -> 79872              \* 0x13800
      [] name = "HairStyleTicket" -> 81920       \* 0x14000
      [] name = "HairColorTicket" -> 86016       \* 0x15000
      [] name = "SkinColorTicket" -> 90112       \* 0x16000
      [] name = "FacePaintTicket" -> 94208       \* 0x17000
      [] name = "EyeColorTicket" -> 98304        \* 0x18000
      [] name = "Chara" -> 129024                \* 0x1F800

\* Item::new; Invalid and an index above 0x7FF panic
Item_new(category, num) ==
    IF category = Invalid \/ num > 2047 THEN [panic |-> TRUE, v |-> 0]
    ELSE LET code == IF category.name \in GlobalCategories THEN ItemCode(category.name)
                     ELSE OrBits(ItemCode(category.name),
                                 to_index(category.c) * Pow2(17))
         IN [panic |-> FALSE, v |-> OrBits(code, num)]

\* mutant: the index is taken with bit 11
Item_num_wide(item) == item % 4096

\* Item::num
Item_num(item) == item % 2048

\* the arms of the two matches in Item::category, on (self.0 >> 12) & 0x1F
GlobalArm(k) ==
    CASE k = 0 -> "ClubSet"
      [] k = 3 -> "Ball"
      [] k = 4 -> "CarryItemParameter"
      [] k = 5 -> "CarryItemEnvironment"
      [] k = 6 -> "CarryItemGroundRes"
      [] k = 7 -> "CarryItemPowerGauge"
      [] k = 8 -> "CarryItemCaddy"
      [] k = 9 -> "HoldItemPoint"
      [] k = 12 -> "HoldItemEvent"
      [] k = 13 -> "HoldItemTicket"
      [] k = 14 -> "HoldItemHumor"
      [] k = 16 -> "HoldItemSupport"
      [] k = 31 -> "Caddy"
      [] OTHER -> "Invalid"
CharaArm(k) ==
    CASE k = 1 -> "Head"
      [] k = 2 -> "Glasses"
      [] k = 3 -> "Tops"
      [] k = 4 -> "Bottoms"
      [] k = 5 -> "Shoes"
      [] k = 6 -> "Gloves"
      [] k = 7 -> "Wing"
      [] k = 15 -> "HairStyle"
      [] k = 16 -> "HairColor"
      [] k = 17 -> "SkinColor"
      [] k = 18 -> "FacePaint"
      [] k = 19 -> "EyeColor"
      [] k = 20 -> "HairStyleTicket"
      [] k = 21 -> "HairColorTicket"
      [] k = 22 -> "SkinColorTicket"
      [] k = 23 -> "FacePaintTicket"
      [] k = 24 -> "EyeColorTicket"
      [] k = 31 -> "Chara"
      [] OTHER -> "Invalid"

\* Item::category
Item_category(item) ==
    IF item = 0 THEN Invalid
    ELSE LET c == from_index((item \div Pow2(17)) % 32)
             k == (item \div Pow2(12)) % 32
         IN IF ~c.some THEN Category(GlobalArm(k), "")
            ELSE IF CharaArm(k) = "Invalid" THEN Invalid
            ELSE Category(CharaArm(k), c.v)

\* the largest index Item::new is given
MaxNum == 2048

InitItem ==
    /\ Idle
    /\ \E category \in ItemCategories \cup {Invalid}, num \in 0 .. MaxNum :
          codec = [op |-> "item", category |-> category, num |-> num]

\* Item::new, then category() and num() of the Item
ItemNew ==
    /\ codec.op = "item"
    /\ LET item == Item_new(codec.category, codec.num) IN
       codec' = [op |-> "new", category |-> codec.category, num |-> codec.num,
                 out |-> item,
                 got |-> IF item.panic THEN <<Invalid, 0>>
                         ELSE <<Item_category(item.v), Item_num(item.v)>>]
    /\ UNCHANGED <<next_cid, conns, conn_lookup, lobbies, actor, sent, last, queue,
                   tasks, stream, db>>

NextItem == ItemNew

SpecItem == InitItem /\ [][NextItem]_vars

(* CountedItem: an Item above a 10-bit count *)

\* an Item as u32, and back
ItemU32(item) == <<item \div Half, item % Half>>
U32Item(w) == (w[1] * Half) + w[2]

\* mutant: the Item is put 8 bits up
CountedItem_new_shl8(item, count) ==
    IF count > 1023 THEN [panic |-> TRUE, v |-> AsU32(0)]
    ELSE [panic |-> FALSE, v |-> BitOr(Shl(ItemU32(item), 8), AsU32(count))]

\* CountedItem::new; a count above 0x3FF panics
CountedItem_new(item, count) ==
    IF count > 1023 THEN [panic |-> TRUE, v |-> AsU32(0)]
    ELSE [panic |-> FALSE, v |-> BitOr(Shl(ItemU32(item), 10), AsU32(count))]

\* CountedItem::item and CountedItem::count
CountedItem_item(w) == U32Item(Shr(w, 10))
CountedItem_count(w) == LowBits(w, 10)

\* the largest count CountedItem::new is given
MaxCount == 1024

\* the indexes of the Items counted: the ends of the range
CountedNums == {0, 2047}

\* the Items counted: Item::new of every category, Item::default(), and
\* the largest 22-bit value
CountedItems ==
    {Item_new(category, num).v : category \in ItemCategories, num \in CountedNums}
        \cup {0, 4194303}

InitCounted ==
    /\ Idle
    /\ \E item \in CountedItems, count \in 0 .. MaxCount :
          codec = [op |-> "pair", item |-> item, count |-> count]

\* CountedItem::new, then item() and count() of the CountedItem
CountedNew ==
    /\ codec.op = "pair"
    /\ LET counted == CountedItem_new(codec.item, codec.count) IN
       codec' = [op |-> "counted", item |-> codec.item, count |-> codec.count,
                 out |-> counted,
                 got |-> IF counted.panic THEN <<0, 0>>
                         ELSE <<CountedItem_item(counted.v), CountedItem_count(counted.v)>>]
    /\ UNCHANGED <<next_cid, conns, conn_lookup, lobbies, actor, sent, last, queue,
                   tasks, stream, db>>

NextCounted == CountedNew

SpecCounted == InitCounted /\ [][NextCounted]_vars

(* The shots of a game: CLIENT_SHOT, CLIENT_STOP_BALLPOS and REQ_GAMESTART  *)
(* among the sessions of SpecCrowd, once they are in the lobby and a room   *)

\* handle_shot_info: the room of the sender, if it has one, notes the sender
\* as current_player; the SEND_SHOT goes to the roommates
handle_shot_info(who) ==
    LET p == conns[who]
        ri == Lobbies_room(lobbies, p.mode, p.cur_lobby, p.cur_room)
        r == send_packet_to_roommates(who, Pkt("SEND_SHOT", p.cid, 0))
    IN /\ lobbies' = IF ri = 0 THEN lobbies
                     ELSE [lobbies EXCEPT
                             ![p.mode][p.cur_lobby + 1].rooms[ri].current_player = p.cid]
       /\ sent' = r.out
       /\ actor' = IF r.status = "panic" THEN "panicked" ELSE actor
       /\ last' = Outcome("ShotInfo", p.cid, 0, r.status)
       /\ UNCHANGED <<next_cid, conns, conn_lookup>>

\* mutant: the test against current_player is left out
stop_ballpos_allowed_any(who) == TRUE

\* the test of handle_stop_ballpos: a sender with a room must be its
\* current_player
stop_ballpos_allowed(who) ==
    LET p == conns[who]
        ri == Lobbies_room(lobbies, p.mode, p.cur_lobby, p.cur_room)
    IN ri # 0 => p.cid = lobbies[p.mode][p.cur_lobby + 1].rooms[ri].current_player

\* handle_stop_ballpos: the SEND_STOP_BALLPOS goes to the sender, then to the
\* roommates
handle_stop_ballpos(who) ==
    LET p == conns[who]
        pkt == Pkt("SEND_STOP_BALLPOS", p.cid, 0)
        echo == RunWrites(<<Direct(who, None, pkt)>>, conns, conn_lookup)
        r == send_packet_to_roommates(who, pkt)
    IN /\ IF ~stop_ballpos_allowed(who) THEN
              /\ sent' = <<>>
              /\ actor' = actor
              /\ last' = Outcome("StopBallpos", p.cid, 0, "not_current_player")
          ELSE IF echo.status # "ok" THEN
              /\ sent' = <<>>
              /\ actor' = actor
              /\ last' = Outcome("StopBallpos", p.cid, 0, echo.status)
          ELSE
              /\ sent' = echo.out \o r.out
              /\ actor' = IF r.status = "panic" THEN "panicked" ELSE actor
              /\ last' = Outcome("StopBallpos", p.cid, 0, r.status)
       /\ UNCHANGED <<next_cid, conns, conn_lookup, lobbies>>

GameShotInfo ==
    /\ actor = "running"
    /\ \E cid \in DOMAIN conn_lookup : handle_shot_info(Who(cid))
    /\ UNCHANGED <<queue, tasks, stream, codec, db>>

GameStopBallpos ==
    /\ actor = "running"
    /\ \E cid \in DOMAIN conn_lookup : handle_stop_ballpos(Who(cid))
    /\ UNCHANGED <<queue, tasks, stream, codec, db>>

\* the member lists a room of the crowd can have: its creator, then those
\* of the others who entered, in the order they did
GameMembers ==
    {m \in UNION {[1 .. n -> CID_MIN .. CID_MIN + MaxCrowd - 1] : n \in 1 .. MaxCrowd} :
        \A i, j \in DOMAIN m : m[i] = m[j] => i = j}

\* MaxCrowd sessions have logged in, changed to VS and entered lobby 0, one
\* has made room 0 and some of the others have entered it
InitGame ==
    /\ next_cid = CID_MIN + MaxCrowd
    /\ conn_lookup = [c \in CID_MIN .. CID_MIN + MaxCrowd - 1 |-> c - CID_MIN + 1]
    /\ \E m \in GameMembers :
          /\ conns = [i \in 1 .. MaxCrowd |->
                        [cid |-> CID_MIN + i - 1, uid |-> i, mode |-> "VS", cur_lobby |-> 0,
                         cur_room |-> IF InSeq(m, CID_MIN + i - 1) THEN 0 ELSE 0 - 1,
                         open |-> TRUE]]
          /\ lobbies = [create_initial_lobbies EXCEPT
                          !["VS"][1].members = [i \in 1 .. MaxCrowd |-> CID_MIN + i - 1],
                          !["VS"][1].rooms =
                              <<[Room_new(0, CrowdRoomData) EXCEPT !.members = m]>>]
    /\ actor = "running"
    /\ sent = <<>>
    /\ last = [op |-> "Init"]
    /\ queue = <<>>
    /\ tasks = <<>>
    /\ stream = <<>>
    /\ codec = <<>>
    /\ db = <<>>

NextGame ==
    \/ ConnectionEnds
    \/ GameShotInfo
    \/ GameStopBallpos
    \/ StartGame

SpecGame == InitGame /\ [][NextGame]_vars

(* The storage task: db_task::run owns the DB and takes the Commands that   *)
(* the DBTask handles of the other tasks send, one at a time                *)

\* the Commands sent in one exploration
MaxCommands == 4

\* the User data written: versions of an account's data, 0 being what the
\* accounts table holds at first
UserData == {1, 2}

Command(kind, uid, data, seq) == [kind |-> kind, uid |-> uid, data |-> data, seq |-> seq]

\* mutant: the newest Command is taken first
mpsc_recv_newest(rx) == [cmd |-> rx[Len(rx)], rest |-> SubSeq(rx, 1, Len(rx) - 1)]

\* rx.recv() of the mpsc channel: the oldest Command
mpsc_recv(rx) == [cmd |-> Head(rx), rest |-> Tail(rx)]

\* DB::handle_command: fails stands for an Err of the statement (WriteUser:
\* logged, false) and gone for a caller that no longer awaits the reply
\* (resp.send(..).is_ok() is false); reply is what the caller receives
handle_command(accounts, cmd, fails, gone) ==
    IF cmd.kind = "WriteUser" THEN
        [ok |-> ~fails,
         accounts |-> IF fails THEN accounts ELSE [accounts EXCEPT ![cmd.uid] = cmd.data],
         reply |-> None]
    ELSE
        [ok |-> ~gone,
         accounts |-> accounts,
         reply |-> IF gone \/ fails THEN None ELSE Some(accounts[cmd.uid])]

\* the loop of run after a Command: `if !db.handle_command(cmd) { error!(..) }`
\* goes on to the next recv whatever the result
run_after(ok) == "running"

InitDb ==
    /\ next_cid = CID_MIN
    /\ conns = <<>>
    /\ conn_lookup = EmptyLookup
    /\ lobbies = <<>>
    /\ actor = "running"
    /\ sent = <<>>
    /\ last = [op |-> "Init"]
    /\ queue = <<>>
    /\ tasks = <<>>
    /\ stream = <<>>
    /\ codec = <<>>
    /\ db = [rx |-> <<>>, seq |-> 0, accounts |-> [u \in Accounts |-> 0], done |-> <<>>,
             st |-> "running"]

\* DBTask::write_user, as save_user of the session actor calls it: the
\* Command is sent and nothing is awaited
DbWriteUser ==
    /\ db.seq < MaxCommands
    /\ \E uid \in Accounts, data \in UserData :
          db' = [db EXCEPT !.seq = @ + 1,
                           !.rx = Append(@, Command("WriteUser", uid, data, db.seq + 1))]
    /\ UNCHANGED <<next_cid, conns, conn_lookup, lobbies, actor, sent, last, queue,
                   tasks, stream, codec>>

\* DBTask::authenticate_user_to_game, as handle_login calls it
DbAuthenticate ==
    /\ db.seq < MaxCommands
    /\ \E uid \in Accounts :
          db' = [db EXCEPT !.seq = @ + 1,
                           !.rx = Append(@, Command("AuthenticateUserToGame", uid, 0,
                                                    db.seq + 1))]
    /\ UNCHANGED <<next_cid, conns, conn_lookup, lobbies, actor, sent, last, queue,
                   tasks, stream, codec>>

\* one turn of the loop of run: `while let Some(cmd) = rx.recv().await`, and
\* a Command that failed is logged
DbRun ==
    /\ db.st = "running"
    /\ db.rx # <<>>
    /\ \E fails \in BOOLEAN, gone \in BOOLEAN :
          LET r == mpsc_recv(db.rx)
              h == handle_command(db.accounts, r.cmd, fails, gone)
          IN db' = [db EXCEPT !.rx = r.rest,
                              !.accounts = h.accounts,
                              !.st = run_after(h.ok),
                              !.done = Append(@, [cmd |-> r.cmd, ok |-> h.ok,
                                                  reply |-> h.reply])]
    /\ UNCHANGED <<next_cid, conns, conn_lookup, lobbies, actor, sent, last, queue,
                   tasks, stream, codec>>

NextDb ==
    \/ DbWriteUser
    \/ DbAuthenticate
    \/ DbRun

SpecDb == InitDb /\ [][NextDb]_vars

(* The shop: REQ_BUY_ITEM of one session; codec holds its User, the request *)
(* and the result                                                           *)

I32_MAX == 2147483647

\* ItemCategory::maximum
maximum(category) ==
    IF category = Invalid THEN 0
    ELSE IF category.name \in {"ClubSet", "Caddy", "Head", "Glasses", "Tops", "Bottoms",
                                "Shoes", "Gloves", "Wing", "HairStyle", "HairColor",
                                "SkinColor", "FacePaint", "EyeColor", "Chara"} THEN 5
    ELSE 50

\* some SellItems of build_sell_list: the first ClubSet and the last Ball,
\* priced num * 5 in GP
shop_items ==
    <<[item |-> Item_new(Category("ClubSet", ""), 1).v, currency |-> "GP", price |-> 5],
      [item |-> Item_new(Category("Ball", ""), 15).v, currency |-> "GP", price |-> 75]>>

\* User::item_amount
item_amount(user, item) ==
    LET hits == {i \in 1 .. Len(user.inventory) : CountedItem_item(user.inventory[i]) = item}
    IN IF hits = {} THEN 0
       ELSE CountedItem_count(user.inventory[CHOOSE i \in hits : \A j \in hits : i <= j])

\* CountedItem::with_count, for a count within 0x3FF
with_count(w, count) == BitOr(Shl(Shr(w, 10), 10), AsU32(count))

\* User::add_item
add_item(user, counted_item) ==
    LET item == CountedItem_item(counted_item)
        hits == {i \in 1 .. Len(user.inventory) : CountedItem_item(user.inventory[i]) = item}
    IN IF hits = {} THEN [user EXCEPT !.inventory = Append(@, counted_item)]
       ELSE LET i == CHOOSE i \in hits : \A j \in hits : i <= j
            IN [user EXCEPT !.inventory[i] =
                    with_count(@, CountedItem_count(@) + CountedItem_count(counted_item))]

\* User::check_balance
check_balance(user, currency, cost) ==
    CASE currency = "GP" -> cost <= user.gp
      [] currency = "SC" -> cost <= user.sc
      [] OTHER -> FALSE

\* User::adjust_balance, for GP and SC
adjust_balance(user, currency, delta) ==
    IF currency = "GP" THEN [user EXCEPT !.gp = @ + delta] ELSE [user EXCEPT !.sc = @ + delta]

\* mutant: the balance is not checked
do_buy_item_on_credit(user, counted_item) ==
    LET item == CountedItem_item(counted_item)
        count == CountedItem_count(counted_item)
        sells == {i \in 1 .. Len(shop_items) : shop_items[i].item = item}
    IN IF sells = {} THEN [result |-> "InvalidItemType", user |-> user]
       ELSE LET sell_item == shop_items[CHOOSE i \in sells : \A j \in sells : i <= j]
            IN [result |-> "OK",
                user |-> add_item(adjust_balance(user, sell_item.currency,
                                                 0 - (count * sell_item.price)),
                                  counted_item)]

\* GameServer::do_buy_item: the BuyItemResult (Err for the `?` on try_into)
\* and the User after it
do_buy_item(user, counted_item) ==
    LET item == CountedItem_item(counted_item)
        count == CountedItem_count(counted_item)
        sells == {i \in 1 .. Len(shop_items) : shop_items[i].item = item}
    IN IF sells = {} THEN [result |-> "InvalidItemType", user |-> user]
       ELSE LET sell_item == shop_items[CHOOSE i \in sells : \A j \in sells : i <= j]
                new_amount == item_amount(user, item) + count
                cost == count * sell_item.price
            IN IF count <= 0 \/ count > maximum(Item_category(item))
               THEN [result |-> "InvalidCount", user |-> user]
               ELSE IF new_amount <= 0 \/ new_amount > maximum(Item_category(item))
               THEN [result |-> "InvalidCount", user |-> user]
               ELSE IF cost > I32_MAX THEN [result |-> "Err", user |-> user]
               ELSE IF ~check_balance(user, sell_item.currency, cost)
               THEN [result |-> "Balance", user |-> user]
               ELSE [result |-> "OK",
                     user |-> add_item(adjust_balance(user, sell_item.currency, 0 - cost),
                                       counted_item)]

\* the balances a session starts with: User::default() has 5000 GP and 100 SC
StartGp == {0, 400, 5000}
StartSc == {0, 100}

\* the items and counts of the requests
BuyItems == {shop_items[i].item : i \in 1 .. Len(shop_items)} \cup {0}
BuyCounts == {0, 5, 50, 51}

InitShop ==
    /\ next_cid = CID_MIN
    /\ conns = <<>>
    /\ conn_lookup = EmptyLookup
    /\ lobbies = <<>>
    /\ actor = "running"
    /\ sent = <<>>
    /\ last = [op |-> "Init"]
    /\ queue = <<>>
    /\ tasks = <<>>
    /\ stream = <<>>
    /\ \E gp \in StartGp, sc \in StartSc :
          /\ codec = [user |-> [gp |-> gp, sc |-> sc, inventory |-> <<>>]]
          /\ db = [written |-> codec.user]

\* handle_buy_item: do_buy_item, the ACK_BUY_ITEM, the REP_MONEY of
\* handle_get_money and save_user; open is whether the session's connection
\* task still holds the receiver, without which the first write fails
BuyItem ==
    /\ \E item \in BuyItems, count \in BuyCounts, open \in BOOLEAN :
          LET r == do_buy_item(codec.user, CountedItem_new(item, count).v) IN
          /\ codec' = [user |-> r.user]
          /\ last' = Outcome("BuyItem", CID_MIN, <<item, count>>, r.result)
          /\ sent' = IF open THEN <<Pkt("ACK_BUY_ITEM", r.result, 0),
                                    Pkt("REP_MONEY", r.user.gp, r.user.sc)>>
                     ELSE <<>>
          /\ db' = IF open THEN [written |-> r.user] ELSE db
    /\ UNCHANGED <<next_cid, conns, conn_lookup, lobbies, actor, queue, tasks, stream>>

NextShop == BuyItem

SpecShop == InitShop /\ [][NextShop]_vars

(* The two bounded channels between the actor and the relay loops: the     *)
(* actor's queue (queue) and the outbound channel of every Player (stream,  *)
(* by index of conns).  Player::write is packet_tx.send(..).await and the   *)
(* relay loop's gs2.send(..).await runs inside the select! arm, where       *)
(* packet_rx is not polled; both wait while their channel is full.  The     *)
(* sessions are the members of one room and send CLIENT_SHOTs.  codec holds *)
(* the writes the handler in progress has still to make.                    *)

RelayPlayers == 2

\* stands for the 128 of mpsc::channel(128) in handle_login
PlayerChannelCap == 2

\* stands for the 1024 of mpsc::channel(1024) in GameServer::start
ActorQueueCap == 2

InitRelay ==
    /\ next_cid = CID_MIN + RelayPlayers
    /\ conns = [i \in 1 .. RelayPlayers |->
                  [cid |-> CID_MIN + i - 1, uid |-> i, mode |-> "VS", cur_lobby |-> 0,
                   cur_room |-> 0, open |-> TRUE]]
    /\ conn_lookup = [c \in CID_MIN .. CID_MIN + RelayPlayers - 1 |-> c - CID_MIN + 1]
    /\ lobbies = [create_initial_lobbies EXCEPT
                     !["VS"][1].members = [i \in 1 .. RelayPlayers |-> CID_MIN + i - 1],
                     !["VS"][1].rooms =
                         <<[Room_new(0, CrowdRoomData) EXCEPT
                               !.members = [i \in 1 .. RelayPlayers |-> CID_MIN + i - 1]]>>]
    /\ actor = "running"
    /\ sent = <<>>
    /\ last = [op |-> "Init"]
    /\ queue = <<>>
    /\ tasks = [t \in 1 .. RelayPlayers |-> [IdleTask EXCEPT !.st = "Relaying", !.cid = CID_MIN + t - 1]]
    /\ stream = [t \in 1 .. RelayPlayers |-> <<>>]
    /\ codec = [pending |-> <<>>]
    /\ db = <<>>

\* select! takes the inbound arm: read_packet has returned a CLIENT_SHOT and
\* the task goes into gs2.send(Message::PlayerData).await
RelayRead(t) ==
    /\ tasks[t].st = "Relaying"
    /\ tasks' = [tasks EXCEPT ![t].st = "Sending"]
    /\ UNCHANGED <<next_cid, conns, conn_lookup, lobbies, actor, sent, last, queue, stream, codec, db>>

\* gs2.send(..).await returns once the actor's queue has room
RelaySend(t) ==
    /\ tasks[t].st = "Sending"
    /\ Len(queue) < ActorQueueCap
    /\ queue' = Append(queue, Msg("PlayerData", t, 0, tasks[t].cid, Pkt("CLIENT_SHOT", 0, 0)))
    /\ tasks' = [tasks EXCEPT ![t].st = "Relaying"]
    /\ UNCHANGED <<next_cid, conns, conn_lookup, lobbies, actor, sent, last, stream, codec, db>>

\* select! takes the outbound arm: packet_rx.recv() has returned a packet
\* and the task goes into conn.write_packet(..).await
RelayRecv(t) ==
    /\ tasks[t].st = "Relaying"
    /\ stream[t] # <<>>
    /\ stream' = [stream EXCEPT ![t] = Tail(@)]
    /\ tasks' = [tasks EXCEPT ![t].st = "Writing"]
    /\ UNCHANGED <<next_cid, conns, conn_lookup, lobbies, actor, sent, last, queue, codec, db>>

\* conn.write_packet(..).await returns Ok
RelayWritten(t) ==
    /\ tasks[t].st = "Writing"
    /\ tasks' = [tasks EXCEPT ![t].st = "Relaying"]
    /\ UNCHANGED <<next_cid, conns, conn_lookup, lobbies, actor, sent, last, queue, stream, codec, db>>

\* msg_rx.recv() returns a PlayerData with a CLIENT_SHOT: handle_shot_info
\* makes the sender the room's current_player and send_packet_to_roommates
\* starts on the other members, in member-list order
ActorRecv ==
    /\ actor = "running"
    /\ queue # <<>>
    /\ LET cid == Head(queue).cid IN
       /\ lobbies' = [lobbies EXCEPT !["VS"][1].rooms[1].current_player = cid]
       /\ codec' = [pending |-> SeqWithout(lobbies["VS"][1].rooms[1].members, cid)]
       /\ last' = Outcome("ShotInfo", cid, 0, "relaying")
    /\ queue' = Tail(queue)
    /\ actor' = "writing"
    /\ UNCHANGED <<next_cid, conns, conn_lookup, sent, tasks, stream, db>>

\* Player::write to the next roommate returns once its channel has room;
\* after the last one the handler returns and the actor is back at recv()
ActorWrite ==
    /\ actor = "writing"
    /\ LET victim == conn_lookup[Head(codec.pending)] IN
       /\ Len(stream[victim]) < PlayerChannelCap
       /\ stream' = [stream EXCEPT ![victim] = Append(@, Pkt("CLIENT_SHOT", last.cid, 0))]
    /\ codec' = [pending |-> Tail(codec.pending)]
    /\ actor' = IF Tail(codec.pending) = <<>> THEN "running" ELSE "writing"
    /\ UNCHANGED <<next_cid, conns, conn_lookup, lobbies, sent, last, queue, tasks, db>>

NextRelay ==
    \/ \E t \in 1 .. RelayPlayers : RelayRead(t)
    \/ \E t \in 1 .. RelayPlayers : RelaySend(t)
    \/ \E t \in 1 .. RelayPlayers : RelayRecv(t)
    \/ \E t \in 1 .. RelayPlayers : RelayWritten(t)
    \/ ActorRecv
    \/ ActorWrite

SpecRelay == InitRelay /\ [][NextRelay]_vars

(* The actor with nearly every CID taken: accounts 1, 2, .. have logged in  *)
(* one after the other and hold the CIDs from CID_MIN on; more accounts log *)
(* in, and the first or the last session of conns logs out.                 *)

\* the initial state has all CIDs but FullSlack or fewer taken
FullSlack == 2

CidCount == CID_MAX - CID_MIN + 1

InitFull ==
    /\ \E n \in (CidCount - FullSlack) .. (CidCount - 1) :
          /\ next_cid = CID_MIN + n
          /\ conns = [i \in 1 .. n |->
                        [cid |-> CID_MIN + i - 1, uid |-> i, mode |-> "None",
                         cur_lobby |-> 0 - 1, cur_room |-> 0 - 1, open |-> TRUE]]
          /\ conn_lookup = [c \in CID_MIN .. CID_MIN + n - 1 |-> c - CID_MIN + 1]
    /\ lobbies = create_initial_lobbies
    /\ actor = "running"
    /\ sent = <<>>
    /\ last = [op |-> "Init"]
    /\ queue = <<>>
    /\ tasks = <<>>
    /\ stream = <<>>
    /\ codec = <<>>
    /\ db = <<>>

\* a Login with bad credentials, of account 1, or of the first account
\* that has no session
FullLogin ==
    /\ actor = "running"
    /\ LET fresh == CHOOSE u \in 1 .. CidCount + 1 :
                       /\ ~already_logged_in(conns, u)
                       /\ \A v \in 1 .. u - 1 : already_logged_in(conns, v)
       IN \E auth \in {0, 1, fresh} : handle_login(auth)
    /\ UNCHANGED <<queue, tasks, stream, codec, db>>

\* the Logout of the first or of the last session of conns
FullLogout ==
    /\ actor = "running"
    /\ Len(conns) >= CidCount - FullSlack
    /\ \E who \in {1, Len(conns)} : remove_player(conns[who].cid)
    /\ UNCHANGED <<queue, tasks, stream, codec, db>>

NextFull == FullLogin \/ FullLogout

SpecFull == InitFull /\ [][NextFull]_vars

----------------------------------------------------------------------------
(* Vocabulary of the properties *)

EnterRoomErrors == {"AlreadyInRoom", "RoomNotFound", "WrongPassword", "RoomIsFull"}

\* the rooms, as <<mode, lobby index, room index>>
RoomRefs ==
    {<<m, li, ri>> \in LobbyModes \X (1 .. 1) \X (1 .. ROOM_NUM_LIMIT + 1) :
        li <= Len(lobbies[m]) /\ ri <= Len(lobbies[m][li].rooms)}

RoomAt(ref) == lobbies[ref[1]][ref[2]].rooms[ref[3]]

RoomsOf(cid) == {ref \in RoomRefs : InSeq(RoomAt(ref).members, cid)}

LobbiesOf(cid) == {m \in LobbyModes : InSeq(lobbies[m][1].members, cid)}

\* the packets of kind op delivered to cid by the last handler
Delivered(cid, op) == {i \in 1 .. Len(sent) : sent[i].to = cid /\ sent[i].pkt.op = op}

----------------------------------------------------------------------------
\* C1: whatever Login, PlayerData and Logout messages the actor has
\* processed, no two entries of conns have the same CID.
C1_NoTwoSessionsShareCid ==
    \A i, j \in 1 .. Len(conns) : conns[i].cid = conns[j].cid => i = j

\* C3: after the actor has processed Logout(cid) for a registered session, cid
\* is in no room's member list and in no lobby's member list.
C3_LogoutEvictsFromRoomAndLobby ==
    (last.op = "Logout" /\ last.res # "unknown")
        => (RoomsOf(last.cid) = {} /\ LobbiesOf(last.cid) = {})

\* C4: the CID of every session is in the member list of at most one lobby
\* and of at most one room.
C4_AtMostOneLobbyAndRoom ==
    \A i \in 1 .. Len(conns) :
        /\ Cardinality(LobbiesOf(conns[i].cid)) <= 1
        /\ Cardinality(RoomsOf(conns[i].cid)) <= 1

\* C6: two REQ_ENTER_ROOM requests rejected for different reasons (already in a
\* room, room missing, wrong password, room full) are answered with different
\* reply codes; stated on consecutive requests.
C6_DistinctRejectionCodes ==
    [][(/\ last.op = "EnterRoom" /\ last'.op = "EnterRoom"
        /\ last.res \in EnterRoomErrors /\ last'.res \in EnterRoomErrors
        /\ last.res # last'.res
        /\ sent # <<>> /\ sent' # <<>>)
          => sent[1].pkt.a # sent'[1].pkt.a]_vars

\* the request of last' as the state before it shows it: the room it names in
\* the requester's lobby is missing / password-protected with another
\* password / at capacity
C7_Requester == conns[conn_lookup[last'.cid]]

C7_RoomIndex ==
    Lobbies_room(lobbies, C7_Requester.mode, C7_Requester.cur_lobby, last'.arg.room)

C7_Room == lobbies[C7_Requester.mode][C7_Requester.cur_lobby + 1].rooms[C7_RoomIndex]

C7_MustReject ==
    \/ C7_RoomIndex = 0
    \/ /\ C7_RoomIndex # 0
       /\ \/ C7_Room.password.some /\ C7_Room.password.v # last'.arg.password
          \/ Len(C7_Room.members) >= C7_Room.max_members

\* C7: a REQ_ENTER_ROOM that names a missing room, gives the wrong password of
\* a password-protected room or names a full room is rejected, and a rejected
\* REQ_ENTER_ROOM (those, or already in a room) changes no member list and no
\* cur_room; the requester, while its connection still holds the receiving
\* end of its channel, gets exactly the error acknowledgment, with the
\* request's pid.
C7_RejectedEnterRoomChangesNothing ==
    [][(last'.op = "EnterRoom" /\ (last'.res \in EnterRoomErrors \/ C7_MustReject))
          => /\ last'.res \in EnterRoomErrors
             /\ lobbies' = lobbies
             /\ conns' = conns
             /\ C7_Requester.open =>
                   /\ Len(sent') = 1
                   /\ sent'[1].to = last'.cid
                   /\ sent'[1].pid = Some(last'.arg.pid)
                   /\ sent'[1].pkt.op = "ACK_ENTER_ROOM"
                   /\ sent'[1].pkt.a < 0]_vars

C7_Witness ==
    /\ last.op = "EnterRoom"
    /\ last.res = "WrongPassword"
    /\ Len(sent) = 1
    /\ sent[1].pkt.a = CODE_WRONG_PASSWORD

\* the requester of the REQ_MAKE_ROOM of last', in the state before it
C10_Requester == conns[conn_lookup[last'.cid]]

\* C10: a REQ_MAKE_ROOM from a session that is not in the target lobby, is in
\* another mode than the lobby's, or is already in a room creates no room and
\* changes no member list and no session.
C10_RejectedMakeRoomChangesNothing ==
    [][(/\ last'.op = "MakeRoom"
        /\ \/ C10_Requester.cur_lobby # last'.arg.data.lobby
           \/ C10_Requester.mode # last'.arg.data.mode
           \/ C10_Requester.cur_room >= 0)
          => /\ lobbies' = lobbies
             /\ conns' = conns
             /\ last'.res \notin {"created", "no_free_number"}]_vars

C10_Witness ==
    /\ last.op = "MakeRoom"
    /\ last.res = "bail_in_room"
    /\ \E i \in 1 .. Len(conns) : conns[i].cid = last.cid /\ conns[i].cur_room >= 0

\* the session registered under cid still holds the receiving end of its channel
Live(cid) == cid \in DOMAIN conn_lookup /\ conns[conn_lookup[cid]].open

\* the room the REQ_ENTER_ROOM of `last` named, in the requester's lobby
C8_Joiner == conns[conn_lookup[last.cid]]

C8_Room ==
    lobbies[C8_Joiner.mode][C8_Joiner.cur_lobby + 1].rooms[
        Lobbies_room(lobbies, C8_Joiner.mode, C8_Joiner.cur_lobby, last.arg.room)]

\* no session is in the member list of C8_Room twice
C8_MembersDistinct ==
    \A i, j \in 1 .. Len(C8_Room.members) :
        C8_Room.members[i] = C8_Room.members[j] => i = j

\* C8: after a REQ_ENTER_ROOM (of a session whose connection can still
\* receive) that put the joiner in a room no session is in twice, the joiner's
\* CID is last in the member list, every other member that was there before
\* (and whose connection can still receive) got exactly one SEND_ULIST, and the
\* joiner got the ACK_ENTER_ROOM of the room, with the request's pid, and no
\* SEND_ULIST.
C8_JoinNotifiesEveryMember ==
    (/\ last.op = "EnterRoom"
     /\ last.res \notin EnterRoomErrors
     /\ Live(last.cid)
     /\ C8_MembersDistinct) =>
        LET members == C8_Room.members IN
        /\ members[Len(members)] = last.cid
        /\ \A i \in 1 .. Len(members) - 1 :
              Live(members[i]) => Cardinality(Delivered(members[i], "SEND_ULIST")) = 1
        /\ \E i \in Delivered(last.cid, "ACK_ENTER_ROOM") :
              sent[i].pid = Some(last.arg.pid) /\ sent[i].pkt.a = last.arg.room
        /\ Delivered(last.cid, "SEND_ULIST") = {}

\* C9: after a REQ_ENTER_LOBBY (of a session whose connection can still
\* receive) that was not rejected the CID is last in the
\* lobby's member list and every other member of the lobby (whose connection
\* can still receive) got a SEND_ULIST_L; no lobby ever has more members than
\* its max_members.
C9_EnterLobbyNotifiesEveryMember ==
    /\ \A m \in LobbyModes : Len(lobbies[m][1].members) <= lobbies[m][1].max_members
    /\ (/\ last.op = "EnterLobby"
        /\ last.res \notin {"bail_in_lobby", "bail_invalid", "full"}
        /\ Live(last.cid)) =>
          LET members == lobbies[conns[conn_lookup[last.cid]].mode][last.arg.num + 1].members IN
          /\ members[Len(members)] = last.cid
          /\ \A i \in 1 .. Len(members) - 1 :
                Live(members[i]) => Cardinality(Delivered(members[i], "SEND_ULIST_L")) = 1

\* the requester of the REQ_MAKE_ROOM of last' and its target lobby, before it
C5_Requester == conns[conn_lookup[last'.cid]]

C5_Accepted ==
    /\ Lobbies_has_lobby(lobbies, last'.arg.data.mode, last'.arg.data.lobby)
    /\ C5_Requester.mode = last'.arg.data.mode
    /\ C5_Requester.cur_lobby = last'.arg.data.lobby
    /\ C5_Requester.cur_room < 0

C5_Lobby == lobbies[last'.arg.data.mode][last'.arg.data.lobby + 1]

C5_Used == {C5_Lobby.rooms[i].room_num : i \in 1 .. Len(C5_Lobby.rooms)}

C5_Free == RoomNumbers \ C5_Used

\* C5: an accepted REQ_MAKE_ROOM on a lobby whose room list is sorted by number
\* creates the room numbered by the smallest number of 0..127 no room of the
\* lobby uses, and acknowledges that number; when every number is used it
\* acknowledges -1 and creates no room.
C5_SmallestFreeRoomNumber ==
    [][(last'.op = "MakeRoom" /\ C5_Accepted) =>
          LET after == lobbies'[last'.arg.data.mode][last'.arg.data.lobby + 1].rooms
              ack == [to |-> last'.cid, uid |-> C5_Requester.uid,
                      pid |-> Some(last'.arg.pid),
                      pkt |-> Pkt("ACK_MAKE_ROOM",
                                  IF C5_Free = {} THEN 0 - 1
                                  ELSE CHOOSE n \in C5_Free : \A k \in C5_Free : n <= k,
                                  0)]
          IN /\ sent' = <<ack>>
             /\ IF C5_Free = {}
                THEN lobbies' = lobbies /\ conns' = conns
                ELSE /\ Len(after) = Len(C5_Lobby.rooms) + 1
                     /\ {after[i].room_num : i \in 1 .. Len(after)} = C5_Used \cup {ack.pkt.a}
                     /\ \A i \in 1 .. Len(after) - 1 : after[i].room_num < after[i + 1].room_num
                     /\ conns'[conn_lookup[last'.cid]].cur_room = ack.pkt.a]_vars

\* rooms {0, 1, 3} were there and the room made is number 2
C5_Witness ==
    /\ last.op = "MakeRoom"
    /\ last.res = "created"
    /\ sent = <<[to |-> CID_MIN, uid |-> 1, pid |-> Some(last.arg.pid),
                 pkt |-> Pkt("ACK_MAKE_ROOM", 2, 0)]>>
    /\ {lobbies["VS"][1].rooms[i].room_num : i \in 1 .. Len(lobbies["VS"][1].rooms)}
          = {0, 1, 2, 3}

\* every number of 0..127 was in use and the request was answered with -1
C5_WitnessFull ==
    /\ last.op = "MakeRoom"
    /\ last.res = "no_free_number"
    /\ Len(lobbies["VS"][1].rooms) = ROOM_NUM_LIMIT + 1

\* C2: when the actor answers a Login that was sent while the one other Login
\* with the same valid credentials was still queued and the account had no
\* entry in conns, this Login got Fail(MultiLoginError) and the other one,
\* which reached the queue first, got Success: exactly one of the two
\* succeeds, whichever task was first.
C2_ConcurrentLoginsOneSuccess ==
    \A t \in Tasks :
        (tasks[t].st = "Answered" /\ tasks[t].rival # 0) =>
            /\ tasks[t].result = "MultiLoginError"
            /\ tasks[t].rival_result = "Success"

\* the second task's Login was queued before the first task's, and lost
C2_Witness ==
    /\ tasks[1].st = "Answered"
    /\ tasks[1].rival = 2
    /\ tasks[1].result = "MultiLoginError"
    /\ tasks[1].rival_result = "Success"
    /\ tasks[2].st = "Relaying"
    /\ \E i \in 1 .. Len(conns) : conns[i].uid = last.arg /\ conns[i].cid = tasks[2].cid

\* the outcomes of handle_enter_lobby and handle_make_room that leave the
\* request unsatisfied through a bail!
C11_Unsatisfied ==
    {"bail_in_lobby", "bail_invalid", "bail_mode", "bail_lobby", "bail_in_room"}

\* C11: a REQ_ENTER_LOBBY or REQ_MAKE_ROOM the server does not satisfy (already
\* in a lobby, invalid lobby, wrong mode, not in the target lobby, already in a
\* room) is answered with a packet to the requester, whose connection can
\* still receive.
C11_FailedRequestGetsReply ==
    (/\ last.op \in {"EnterLobby", "MakeRoom"}
     /\ last.res \in C11_Unsatisfied
     /\ Live(last.cid))
        => \E i \in 1 .. Len(sent) : sent[i].to = last.cid

\* C12: a Login answered with Fail (IDError for a storage or credential
\* failure, MultiLoginError for an account that has an entry in conns) leaves
\* conns, conn_lookup, next_cid and the lobbies with their rooms as they were;
\* and a Login with failed credentials or for an account in conns is so answered.
C12_RejectedLoginChangesNothing ==
    [][(last'.op = "Login") =>
          /\ (last'.arg = 0 \/ \E i \in 1 .. Len(conns) : conns[i].uid = last'.arg)
                => last'.res \in {"IDError", "MultiLoginError"}
          /\ last'.res \in {"IDError", "MultiLoginError"} =>
                /\ conns' = conns
                /\ conn_lookup' = conn_lookup
                /\ next_cid' = next_cid
                /\ lobbies' = lobbies
                /\ actor' = actor]_vars

\* a Login for an account that has a session, in a lobby with a room, was
\* answered with MultiLoginError
C12_Witness ==
    /\ last.op = "Login"
    /\ last.res = "MultiLoginError"
    /\ \E i \in 1 .. Len(conns) : conns[i].uid = last.arg /\ conns[i].cur_room >= 0

\* C13: when the actor takes a Login whose IDPass carries valid credentials
\* and a version other than the expected one, it answers with the
\* version-mismatch code and conns gets no new entry.
C13_VersionMismatchRejected ==
    [][(/\ queue # <<>>
        /\ Head(queue).type = "Login"
        /\ Head(queue).auth # 0
        /\ Head(queue).pkt # EXPECTED_VERSION
        /\ last'.op = "Login"
        /\ queue' = Tail(queue))
          => (last'.res = "VersionError" /\ conns' = conns)]_vars

\* the candidates the cursor passes on its way from a to b, wrapping at CID_MAX
C14_Passed(a, b) ==
    IF a <= b THEN a .. (b - 1) ELSE (a .. CID_MAX) \cup (CID_MIN .. (b - 1))

C15_InHandshake == {"Handshaking", "AwaitLogin", "Answered"}

C16_Breaks(t) == tasks[t].st = "Relaying" /\ tasks'[t].st = "Closing"

\* C16: whenever the relay loop of a connection task breaks, that step has
\* put Message::Logout with the task's CID into the actor's queue.
C16_LogoutBeforeRelayEnds ==
    [][\A t \in Tasks :
          C16_Breaks(t) =>
              /\ Len(queue') = Len(queue) + 1
              /\ queue'[Len(queue')].type = "Logout"
              /\ queue'[Len(queue')].cid = tasks[t].cid]_vars

\* the step after the relay loop, conn.shutdown(), is taken by task t
C17_ShutdownStep(t) == tasks[t].st = "Closing" /\ tasks'[t].st = "Closed"

\* C17: a connection task that has its TLS session ends by no other step than
\* the one that runs conn.shutdown().
C17_ShutdownBeforeTaskEnds ==
    [][\A t \in Tasks :
          (tasks[t].st # "Closed" /\ tasks'[t].st = "Closed") => C17_ShutdownStep(t)]_vars

\* the messages in q that the relay loop of the connection with CID c sent
C18_Of(q, c) == SelectSeq(q, LAMBDA m : m.type # "Login" /\ m.cid = c)

\* the CIDs of the connections that have a relay-loop message in the queue
C18_Cids == {queue[i].cid : i \in {j \in 1 .. Len(queue) : queue[j].type # "Login"}}

\* the waiting messages of every connection are in the order of its frames,
\* none missing up to the last one it sent, and no message after its Logout
C18_QueueInWireOrder ==
    \A c \in C18_Cids :
        LET ms == C18_Of(queue, c) IN
        /\ ms[1].seq >= 1
        /\ \A i \in 1 .. Len(ms) - 1 :
              ms[i + 1].seq = ms[i].seq + 1 /\ ms[i].type = "PlayerData"
        /\ \A t \in Tasks :
              (tasks[t].cid = c /\ tasks[t].st \in {"Relaying", "Closing"})
                  => /\ ms[Len(ms)].seq = tasks[t].seq
                     /\ ms[Len(ms)].type = "Logout" => tasks[t].st = "Closing"

\* C18: the actor takes the message at the head of the queue, and the queue
\* holds each connection's PlayerData in the order of the frames on the wire,
\* with its Logout, the last message the connection sends, behind them all.
C18_ProcessedInWireOrder ==
    [][/\ C18_QueueInWireOrder'
       /\ Len(queue') < Len(queue) =>
             /\ queue' = Tail(queue)
             /\ Head(queue).type # "Login" =>
                   (last'.cid = Head(queue).cid
                    /\ \A i \in 1 .. Len(queue') :
                          (queue'[i].type # "Login" /\ queue'[i].cid = Head(queue).cid)
                              => queue'[i].seq > Head(queue).seq)
       /\ \A t \in Tasks :
             (tasks[t].st = "Closing" /\ tasks'[t].st = "Closing") =>
                 Len(C18_Of(queue', tasks[t].cid)) <= Len(C18_Of(queue, tasks[t].cid))]_vars

\* the actor has processed the first PlayerData of a connection while the
\* second and the Logout are waiting, in this order
C18_Witness ==
    /\ Len(queue) = 2
    /\ queue[1].type = "PlayerData" /\ queue[1].seq = 2
    /\ queue[2].type = "Logout" /\ queue[2].seq = 3
    /\ queue[1].cid = queue[2].cid
    /\ last.op \in {"ChangeMode", "EnterLobby", "MakeRoom", "GetRoomMembers", "PlayerData"}
    /\ last.cid = queue[1].cid

\* C19: when the actor takes a PlayerData or a Logout whose CID is no key of
\* conn_lookup, it changes nothing of its state, writes to no client, and
\* goes on running.
C19_StrayMessageChangesNothing ==
    [][(/\ last'.op \in {"PlayerData", "Logout"}
        /\ last'.cid \notin DOMAIN conn_lookup)
          => /\ conns' = conns /\ conn_lookup' = conn_lookup /\ next_cid' = next_cid
             /\ lobbies' = lobbies
             /\ sent' = <<>>
             /\ actor' = "running"]_vars

\* a PlayerData with a CID that has no session was taken while a session with
\* a room exists
C19_Witness ==
    /\ last.op = "PlayerData"
    /\ last.cid \notin DOMAIN conn_lookup
    /\ actor = "running"
    /\ \E i \in 1 .. Len(conns) : conns[i].cur_room >= 0

\* the opcodes among those of ConnFrames that have a variant in Packet
C20_Catalogue == {8, 14, 16, 22}

\* C20: a frame whose opcode is not in the catalogue reaches the actor as
\* Packet::Unknown; the task that sent it is still in its relay loop; and the
\* actor, on taking an Unknown of a session, changes nothing of its state and
\* writes to no client.
C20_UnknownOpcodeIsHarmless ==
    [][/\ \A i \in 1 .. Len(queue') :
             (queue'[i].type = "PlayerData" /\ queue'[i].id \notin C20_Catalogue)
                 => queue'[i].pkt = Pkt("Unknown", 0, 0)
       /\ \A t \in Tasks :
             (/\ Len(queue') = Len(queue) + 1
              /\ queue'[Len(queue')].type = "PlayerData"
              /\ queue'[Len(queue')].task = t)
                 => (tasks'[t].st = "Relaying" /\ tasks'[t].cid = tasks[t].cid)
       /\ (/\ queue # <<>> /\ queue' = Tail(queue)
           /\ Head(queue).type = "PlayerData"
           /\ Head(queue).id \notin C20_Catalogue
           /\ Head(queue).cid \in DOMAIN conn_lookup)
             => /\ conns' = conns /\ conn_lookup' = conn_lookup /\ next_cid' = next_cid
                /\ lobbies' = lobbies /\ actor' = actor
                /\ sent' = <<>>
                /\ last' = Outcome("PlayerData", Head(queue).cid, Pkt("Unknown", 0, 0),
                                   "unhandled")]_vars

\* the actor has taken an Unknown of a session that has chosen its mode, and
\* the next message of the same connection, read after it, is waiting
C20_Witness ==
    /\ last.op = "PlayerData"
    /\ last.res = "unhandled"
    /\ \E i \in 1 .. Len(conns) : conns[i].cid = last.cid /\ conns[i].mode = "VS"
    /\ queue # <<>>
    /\ Head(queue).type = "PlayerData"
    /\ Head(queue).cid = last.cid

\* the bytes of the peer's first k frames
C21_Bytes(k) == Len(Wire(SubSeq(stream.sent, 1, k)))

\* how many of the peer's frames arrive whole before the stream ends
C21_Whole ==
    CHOOSE k \in 0 .. Len(stream.sent) :
        /\ C21_Bytes(k) <= stream.cut
        /\ \A j \in (k + 1) .. Len(stream.sent) : C21_Bytes(j) > stream.cut

\* how many of them read_packet is to return: those before the first one that
\* from_bytes rejects
C21_Due ==
    CHOOSE m \in 0 .. C21_Whole :
        /\ \A i \in 1 .. m : from_bytes(stream.sent[i]).ok
        /\ m < C21_Whole => ~from_bytes(stream.sent[m + 1]).ok

\* the packets returned are the peer's frames, one packet per frame and in
\* order; what is buffered and what is still to come are the peer's bytes
\* behind those frames; and read_packet stops only when every frame due has
\* been returned
C21_FramesKept ==
    /\ Len(stream.got) <= C21_Due
    /\ \A i \in 1 .. Len(stream.got) : stream.got[i] = from_bytes(stream.sent[i])
    /\ stream.buffer \o stream.wire =
          SubSeq(Wire(stream.sent), C21_Bytes(Len(stream.got)) + 1, stream.cut)
    /\ stream.st # "reading" => Len(stream.got) = C21_Due
    /\ stream.st = "Err" <=> (stream.st # "reading" /\ C21_Due < C21_Whole)

\* C21: however the peer's bytes are cut into chunks, read_packet returns the
\* peer's frames one by one: a frame is decoded only when its two length bytes
\* and its whole payload are buffered, it takes 2 + length bytes out of the
\* buffer, and the bytes behind it stay.
C21_ChunkingDoesNotMatter ==
    [][/\ C21_FramesKept'
       /\ (stream'.got # stream.got \/ stream'.st = "Err") =>
             /\ Len(stream.buffer) >= 2
             /\ Len(stream.buffer) >= 2 + stream.buffer[1] + 256 * stream.buffer[2]
             /\ stream'.wire = stream.wire
       /\ stream'.got # stream.got =>
             /\ Len(stream'.got) = Len(stream.got) + 1
             /\ Len(stream'.buffer) =
                   Len(stream.buffer) - (2 + stream.buffer[1] + 256 * stream.buffer[2])
             /\ stream'.buffer = SubSeq(stream.buffer,
                                        Len(stream.buffer) - Len(stream'.buffer) + 1,
                                        Len(stream.buffer))]_vars

\* the first frame has been returned from a buffer that held, behind it, the
\* first of the two length bytes of the second frame
C21_Witness ==
    /\ Len(stream.got) = 1
    /\ Len(stream.buffer) = 1
    /\ stream.wire # <<>>
    /\ C21_Due = 2

\* a frame was written for a message that came with a pid
C22_Reply == stream'.st = "open" /\ stream'.req.some /\ stream' # stream

\* a frame was written for a message that came without pid
C22_Push == stream'.st = "open" /\ ~stream'.req.some /\ stream' # stream

C23_OptionalAsStated ==
    /\ codec.op = "unpack_optional" =>
          /\ codec.in \in {0, 1023} => codec.out = None
          /\ codec.in \in 1 .. 1022 => codec.out = Some(codec.in - 1)
    /\ codec.op = "pack_optional" =>
          /\ codec.out.ok => codec.out.v # 1023
          /\ (codec.in.some /\ codec.in.v > 1021) => ~codec.out.ok

\* C23, with the limits the code has: unpacking 0 gives None and unpacking v
\* in 1..0x3FF gives v - 1; packing None gives 0, packing n <= 0x3FE gives
\* n + 1, so that 0x3FF is the packing of 0x3FE, and packing fails for every
\* value above 0x3FE.
C23_OptionalLimits ==
    /\ codec.op = "unpack_optional" =>
          /\ codec.in = 0 => codec.out = None
          /\ codec.in \in 1 .. 1023 => codec.out = Some(codec.in - 1)
    /\ codec.op = "pack_optional" =>
          /\ ~codec.in.some => codec.out = Ok(0)
          /\ (codec.in.some /\ codec.in.v <= 1022) => codec.out = Ok(codec.in.v + 1)
          /\ (codec.in.some /\ codec.in.v > 1022) => ~codec.out.ok
          /\ codec.out.ok => codec.out.v \in TenBits

\* 0x3FF has been unpacked
C23_Witness ==
    /\ codec.op = "unpack_optional"
    /\ codec.in = 1023
    /\ codec.out = Some(1022)

\* C24: Some(0x3FE) packed and unpacked is Some(0x3FE), None packed and
\* unpacked is None, and packing Some(0x3FF) is an error.
C24_OptionalRoundTrip ==
    codec.op = "repack_optional" =>
        /\ codec.in = Some(1022) => (codec.out.ok /\ codec.out.v = Some(1022))
        /\ codec.in = None => (codec.out.ok /\ codec.out.v = None)
        /\ codec.in = Some(1023) => ~codec.packed.ok

\* Some(0x3FE) has been packed, into 0x3FF, and unpacked
C24_Witness ==
    /\ codec.op = "repack_optional"
    /\ codec.in = Some(1022)
    /\ codec.packed = Ok(1023)
    /\ codec.out.ok
    /\ codec.out.v = Some(1022)

\* C25: an Appearance with every field in range, written and read back, is
\* the same Appearance.
C25_AppearanceRoundTrip ==
    (codec.op = "rewrite" /\ InRange(codec.in)) =>
        /\ codec.words.ok
        /\ Len(codec.words.words) = 9
        /\ codec.out.ok
        /\ codec.out.v = codec.in

\* an Appearance with two neighbours of one word at the top of their ranges
\* has been written and read back
C25_Witness ==
    /\ codec.op = "rewrite"
    /\ codec.in.eye_color = 255
    /\ codec.in.default_tops = Some(1022)
    /\ codec.out.ok
    /\ codec.out.v.skin_color = 0

\* C26: writing an Appearance that has a field out of range is an error.
C26_OutOfRangeIsAnError ==
    (codec.op = "write" /\ ~InRange(codec.in)) => ~codec.out.ok

\* C27: for every category but Invalid and every index up to 0x7FF, the Item
\* that Item::new builds gives back the category and the index, and is not 0.
C27_ItemRoundTrip ==
    (codec.op = "new" /\ codec.category # Invalid /\ codec.num <= 2047) =>
        /\ ~codec.out.panic
        /\ codec.got[1] = codec.category
        /\ codec.got[2] = codec.num
        /\ codec.out.v # 0

\* the Item of the last character's last category with the largest index has
\* been built and taken apart
C27_Witness ==
    /\ codec.op = "new"
    /\ codec.category = Category("Chara", "Sect")
    /\ codec.num = 2047
    /\ codec.got = <<Category("Chara", "Sect"), 2047>>

\* C28: for every count up to 0x3FF and every Item, the CountedItem that
\* CountedItem::new builds gives back the count and the Item.
C28_CountedRoundTrip ==
    (codec.op = "counted" /\ codec.count <= 1023) =>
        /\ ~codec.out.panic
        /\ codec.got[1] = codec.item
        /\ codec.got[2] = codec.count

\* the largest count of an Item of the last character has been packed and
\* taken apart
C28_Witness ==
    /\ codec.op = "counted"
    /\ codec.count = 1023
    /\ codec.item = Item_new(Category("Chara", "Sect"), 2047).v
    /\ codec.got = <<codec.item, 1023>>

\* the session of cid is in a lobby and its mode differs from m
C29_Leaves(cid, m) ==
    /\ cid \in DOMAIN conn_lookup
    /\ conns[conn_lookup[cid]].cur_lobby >= 0
    /\ conns[conn_lookup[cid]].mode # m

\* C29: a REQ_CHG_MODE to a different mode by a session in a lobby leaves the
\* session's CID in no lobby member list and in no room member list, with
\* cur_lobby and cur_room both none.
C29_ChangeModeLeavesLobbyAndRoom ==
    [][\A cid \in DOMAIN conn_lookup :
          (/\ last'.op = "ChangeMode"
           /\ last'.res = "ok"
           /\ last'.cid = cid
           /\ C29_Leaves(cid, last'.arg.mode))
              => /\ LobbiesOf(cid)' = {}
                 /\ RoomsOf(cid)' = {}
                 /\ conns'[conn_lookup[cid]].cur_lobby < 0
                 /\ conns'[conn_lookup[cid]].cur_room < 0]_vars

\* C30: a session with cur_room >= 0 has cur_lobby >= 0, and the lobby of that
\* number of the session's mode has a room of that number.
C30_InRoomImpliesInLobby ==
    \A i \in 1 .. Len(conns) :
        conns[i].cur_room >= 0 =>
            /\ conns[i].cur_lobby >= 0
            /\ Lobbies_has_lobby(lobbies, conns[i].mode, conns[i].cur_lobby)
            /\ Lobbies_room(lobbies, conns[i].mode, conns[i].cur_lobby, conns[i].cur_room) > 0

\* the room the session of cid is in
C31_HasRoom(cid) ==
    LET p == conns[conn_lookup[cid]] IN
    Lobbies_room(lobbies, p.mode, p.cur_lobby, p.cur_room) # 0

C31_Room(cid) ==
    LET p == conns[conn_lookup[cid]] IN
    lobbies[p.mode][p.cur_lobby + 1].rooms[
        Lobbies_room(lobbies, p.mode, p.cur_lobby, p.cur_room)]

\* a CLIENT_STOP_BALLPOS of cid, a session with a room, has been handled
C31_Stop(cid) ==
    /\ last'.op = "StopBallpos"
    /\ last'.cid = cid
    /\ C31_HasRoom(cid)

C32_Requester == conns[conn_lookup[last.cid]]
C32_Sent(op) == {i \in 1 .. Len(sent) : sent[i].pkt.op = op}

\* C32: a REQ_GAMESTART from a VS session in a room (whose connection can
\* still receive) sends one game-start packet, holding the member list in
\* its order, to every member of the room whose connection can still receive,
\* requester included, and acknowledges the requester last; from a VS session
\* in no room, the requester gets the error acknowledgment and nothing else
\* is sent.
C32_GameStartReachesEveryMember ==
    (/\ last.op = "StartGame"
     /\ Live(last.cid)
     /\ C32_Requester.mode = "VS") =>
        IF C31_HasRoom(last.cid) THEN
            LET room == C31_Room(last.cid) IN
            /\ \A i \in C32_Sent("ORD_GAMESTART") :
                  sent[i].pkt.a = Len(room.members) /\ sent[i].pkt.b = room.members
            /\ \A i \in 1 .. Len(room.members) :
                  Live(room.members[i])
                      => Cardinality(Delivered(room.members[i], "ORD_GAMESTART")) = 1
            /\ sent # <<>>
            /\ sent[Len(sent)].to = last.cid
            /\ sent[Len(sent)].pkt = Pkt("ACK_GAMESTART", 0, 0)
        ELSE
            /\ Len(sent) = 1
            /\ sent[1].to = last.cid
            /\ sent[1].pkt = Pkt("ACK_GAMESTART", 0 - 1, 0)

\* the room numbers of the lobby of mode m
C33_Numbers(m) == {lobbies[m][1].rooms[i].room_num : i \in 1 .. Len(lobbies[m][1].rooms)}

\* the room list of every lobby is strictly ascending in room number, within
\* 0..127
C33_Sorted ==
    \A m \in LobbyModes :
        LET rooms == lobbies[m][1].rooms IN
        /\ \A i \in 1 .. Len(rooms) : rooms[i].room_num \in 0 .. ROOM_NUM_LIMIT
        /\ \A i \in 1 .. Len(rooms) - 1 : rooms[i].room_num < rooms[i + 1].room_num
        /\ Len(rooms) <= ROOM_NUM_LIMIT + 1

\* C33: in every lobby the room list is sorted by room number, the numbers
\* are distinct and within 0..127, there are at most 128 rooms, and no step
\* removes a room.
C33_RoomListSortedAndKept ==
    /\ []C33_Sorted
    /\ [][\A m \in LobbyModes : C33_Numbers(m) \subseteq C33_Numbers(m)']_vars

\* the 128th room of a lobby has been made, numbered 2
C33_Witness ==
    /\ last.op = "MakeRoom"
    /\ last.res = "created"
    /\ Len(lobbies["VS"][1].rooms) = ROOM_NUM_LIMIT + 1
    /\ conns[1].cur_room = 2

\* the data of the last WriteUser for uid that succeeded among the first k
\* Commands handled, or the initial data
RECURSIVE C34_Written(_, _)
C34_Written(uid, k) ==
    IF k = 0 THEN 0
    ELSE IF db.done[k].cmd.kind = "WriteUser" /\ db.done[k].cmd.uid = uid /\ db.done[k].ok
    THEN db.done[k].cmd.data
    ELSE C34_Written(uid, k - 1)

\* C34: the storage task handles the Commands one at a time in the order they
\* were sent; an AuthenticateUserToGame is answered with what the WriteUsers
\* for the account sent before it have written; and after a Command that
\* failed the task goes on with the next.
C34_CommandsInOrder ==
    /\ \A k \in 1 .. Len(db.done) : db.done[k].cmd.seq = k
    /\ \A k \in 1 .. Len(db.rx) : db.rx[k].seq = Len(db.done) + k
    /\ \A k \in 1 .. Len(db.done) :
          (db.done[k].cmd.kind = "AuthenticateUserToGame" /\ db.done[k].reply.some)
              => db.done[k].reply.v = C34_Written(db.done[k].cmd.uid, k - 1)
    /\ db.st = "running"

\* a WriteUser failed, the next WriteUser of the account was applied, and the
\* AuthenticateUserToGame sent after both was answered with its data
C34_Witness ==
    /\ Len(db.done) = 3
    /\ db.done[1].cmd = Command("WriteUser", 1, 1, 1) /\ ~db.done[1].ok
    /\ db.done[2].cmd = Command("WriteUser", 1, 2, 2) /\ db.done[2].ok
    /\ db.done[3].cmd.kind = "AuthenticateUserToGame"
    /\ db.done[3].reply = Some(2)

\* C35: the gp and sc of a session that started with both non-negative stay
\* non-negative through its REQ_BUY_ITEMs, and a request answered with
\* another result than OK leaves the balances and the inventory as they were.
C35_BalancesStayNonNegative ==
    /\ [](codec.user.gp >= 0 /\ codec.user.sc >= 0)
    /\ [][last'.res # "OK" => codec'.user = codec.user]_vars

\* a purchase took the last GP of the session
C35_Witness ==
    /\ last.op = "BuyItem"
    /\ last.res = "OK"
    /\ codec.user.gp = 0
    /\ codec.user.inventory # <<>>

\* C36: after every message the actor has processed, conn_lookup maps the
\* CIDs of the sessions of conns one-to-one onto the indices of conns, with
\* conns[conn_lookup[c]].cid = c; no session is in conns without an entry of
\* conn_lookup.
C36_LookupMatchesConns ==
    /\ \A c \in DOMAIN conn_lookup :
          /\ conn_lookup[c] \in 1 .. Len(conns)
          /\ conns[conn_lookup[c]].cid = c
    /\ \A i \in 1 .. Len(conns) :
          /\ conns[i].cid \in DOMAIN conn_lookup
          /\ conn_lookup[conns[i].cid] = i

\* the CIDs of the member lists of the lobbies and of their rooms
C37_Listed ==
    UNION ({{lobbies[m][1].members[k] : k \in 1 .. Len(lobbies[m][1].members)} :
               m \in LobbyModes}
           \cup {{RoomAt(ref).members[k] : k \in 1 .. Len(RoomAt(ref).members)} :
                    ref \in RoomRefs})

\* C37: every CID of a lobby's or a room's member list is the CID of a
\* registered session, so no lookup of a member fails and the actor never
\* panics.
C37_MembersAreRegistered ==
    /\ C37_Listed \subseteq DOMAIN conn_lookup
    /\ actor # "panicked"

\* C38: no room has more members than its max_members, a room made by a
\* REQ_MAKE_ROOM with member_max 0 included.
C38_RoomWithinMaxMembers ==
    \A ref \in RoomRefs : Len(RoomAt(ref).members) <= RoomAt(ref).max_members

\* the actor waits in Player::write on the full outbound channel of the
\* session of task t, whose relay loop waits in gs2.send on the full queue
C39_WaitOnEachOther(t) ==
    /\ actor = "writing"
    /\ conn_lookup[Head(codec.pending)] = t
    /\ Len(stream[t]) = PlayerChannelCap
    /\ tasks[t].st = "Sending"
    /\ Len(queue) = ActorQueueCap

\* C39: in no reachable state does the actor wait to send on a player's full
\* outbound channel while that player's connection task waits to send on the
\* full queue of the actor.
C39_NoDeadlock == \A t \in 1 .. RelayPlayers : ~C39_WaitOnEachOther(t)

\* C40: the allocation of a CID terminates: a Login that passes the
\* credential and the multi-login check is answered, also when every CID of
\* CID_MIN .. CID_MAX is held by a session.
C40_LoginIsAnswered ==
    /\ actor # "hung"
    /\ last.op = "Login" => last.res \in {"Success", "IDError", "MultiLoginError"}

====
